---- MODULE Spec2Model ----
(***************************************************************************)
(* The dialogue orchestrator of query-prolytics (MainAgent) together with  *)
(* the collaborators it drives: the probing session, the retrieval agent   *)
(* and the notification agent.  One step of the model is one complete      *)
(* MainAgent.handle_message call.                                          *)
(*                                                                         *)
(* Python values are represented as follows.                               *)
(*   Optional[x]   None is <<>>, a present value x is <<x>>                *)
(*   str           user messages and classification labels are tuples of   *)
(*                 one-character strings, so that lower(), strip() and the *)
(*                 substring test are computed and not assumed             *)
(*   exceptions    a handler result carries "pending", the exception that  *)
(*                 is propagating (None when the handler returned)         *)
(***************************************************************************)
EXTENDS Naturals, Sequences, FiniteSets, TLC

VARIABLES
    state,               \* MainAgent._state
    current_query,       \* MainAgent.context.current_query
    current_answer,      \* MainAgent.context.current_answer
    probe_count,         \* MainAgent.context.probe_count
    feedback_type,       \* MainAgent.context.feedback_type
    probe_results,       \* MainAgent.context.probe_results
    collected_responses, \* MainAgent.probing_agent.collected_responses
    question_counter,    \* MainAgent.probing_agent.question_counter
    current_question,    \* MainAgent.probing_agent.current_question
    retrieval_state,     \* MainAgent.retrieval_agent._state
    msg,                 \* the message of the last handle_message call
    start_state,         \* MainAgent._state when the last call started
    transitions,         \* the states the last call passed to transition_to
    invoked,             \* the collaborators the last call invoked, in order
    response,            \* the value the last call returned
    exc,                 \* the exception raised inside the last call, if any
    propagated,          \* the exception the last call let through to its
                         \* caller, if any
    notified,            \* the message the last call gave the notification agent
    classified,          \* the language model's answer to the last call's
                         \* classification prompt, if it gave one
    calls,               \* the number of handle_message calls made so far
    tasks,               \* the Task objects: the fields of each
    agents,              \* Agent._state of each task's agent
    script,              \* what the agents' handlers do, call after call
    used,                \* the number of handler calls made so far
    op,                  \* the last operation on a task or its agent
    events,              \* the events of the last operation, in order
    result,              \* the value the last operation returned
    rejected,            \* the exception the last operation raised, if any
    ops,                 \* the number of operations on tasks made so far
    tools                \* Agent.tools of the dispatching agent: the
                         \* registered tools, in the order of the dict

mainvars ==
    <<state, current_query, current_answer, probe_count, feedback_type,
      probe_results, collected_responses, question_counter,
      current_question, retrieval_state, msg, start_state, transitions,
      invoked, response, exc, propagated, notified, classified, calls>>

taskvars == <<tasks, agents, script, used, op, events, result, rejected, ops>>

vars == <<mainvars, taskvars, tools>>

----------------------------------------------------------------------------
(* Bounds of the model *)

\* ProbingAgentConfig.max_questions of the orchestrator's probing agent
MaxQuestions == 2

\* the number of messages of the dialogues explored
MaxCalls == 5

\* the largest max_steps of a Task
MaxSteps == 2

\* the period of the handlers' outcomes: the k-th handler call of a
\* behaviour has the outcome the (k - ScriptLen)-th had
ScriptLen == 2

\* the number of operations made on the tasks
MaxOps == 3

\* the length, in words, of the longest output of the selection prompt
MaxOutput == 3

----------------------------------------------------------------------------
(* Python values *)

None == <<>>

Some(x) == <<x>>

\* str.lower() on the letters that occur in the messages of the model
LowerOf ==
    [c \in {"Y", "E", "S", "N", "O", "T", "H", "G", "C"} |->
        CASE c = "Y" -> "y" [] c = "E" -> "e" [] c = "S" -> "s"
          [] c = "N" -> "n" [] c = "O" -> "o" [] c = "T" -> "t"
          [] c = "H" -> "h" [] c = "G" -> "g" [] c = "C" -> "c"]

lower(s) ==
    [i \in 1..Len(s) |-> IF s[i] \in DOMAIN LowerOf THEN LowerOf[s[i]] ELSE s[i]]

Whitespace == {" ", "\t", "\n"}

RECURSIVE lstrip(_)
lstrip(s) ==
    IF Len(s) > 0 /\ s[1] \in Whitespace THEN lstrip(Tail(s)) ELSE s

RECURSIVE rstrip(_)
rstrip(s) ==
    IF Len(s) > 0 /\ s[Len(s)] \in Whitespace
    THEN rstrip(SubSeq(s, 1, Len(s) - 1))
    ELSE s

\* str.strip()
strip(s) == rstrip(lstrip(s))

\* the Python test  sub in s  on two strings
Contains(sub, s) ==
    \E i \in 0..Len(s) :
        i + Len(sub) <= Len(s) /\ SubSeq(s, i + 1, i + Len(sub)) = sub

----------------------------------------------------------------------------
(* AgentState *)

AgentState ==
    {"idle", "processing", "tool_execution", "error", "done", "retrieving",
     "waiting_feedback", "probing"}

----------------------------------------------------------------------------
(* The user's messages and the language model's classification labels *)

\* the satisfied vocabulary of _handle_feedback
FEEDBACK_SATISFIED ==
    {<<"y", "e", "s">>,
     <<"g", "o", "o", "d">>,
     <<"c", "o", "r", "r", "e", "c", "t">>,
     <<"p", "e", "r", "f", "e", "c", "t">>,
     <<"t", "h", "a", "n", "k", "s">>}

\* the unsatisfied vocabulary of _handle_feedback
FEEDBACK_UNSATISFIED ==
    {<<"n", "o">>,
     <<"w", "r", "o", "n", "g">>,
     <<"i", "n", "c", "o", "r", "r", "e", "c", "t">>,
     <<"b", "a", "d">>,
     <<"n", "o", "t", " ", "h", "e", "l", "p", "f", "u", "l">>}

\* the messages a user types: a satisfied and an unsatisfied vocabulary word
\* in other case and with surrounding whitespace, a word that contains a
\* vocabulary word and a word that is part of one
Messages ==
    {<<" ", "Y", "e", "s", "\n">>,
     <<"N", "o", "t", " ", "H", "e", "l", "p", "f", "u", "l", " ">>,
     <<"n", "o", "p", "e">>,
     <<"g", "o", "o">>}

\* the label the classification prompt asks for
general_chat ==
    <<"g", "e", "n", "e", "r", "a", "l", "_", "c", "h", "a", "t">>

\* the texts the language model answers the classification prompt with
ClassificationTexts ==
    {<<"g", "e", "n", "e", "r", "a", "l", "_", "c", "h", "a", "t">>,
     <<"n", "e", "e", "d", "s", "_", "r", "e", "t", "r", "i", "e", "v", "a", "l">>,
     <<"o", "k", ":", " ", "g", "e", "n", "e", "r", "a", "l", "_", "c", "h", "a", "t", ".">>,
     <<"G", "e", "n", "e", "r", "a", "l", "_", "C", "h", "a", "t">>}

----------------------------------------------------------------------------
(* The results of the collaborators a call depends on *)

\* what LanguageModel.generate gives its caller: a dict whose "message" is a
\* text or None, a dict without "message", None, or an exception (also the
\* AttributeError of calling generate on an unconfigured model)
LLMResult(kind, message) == [kind |-> kind, message |-> message]

ClassificationResults ==
    {LLMResult("dict", Some(t)) : t \in ClassificationTexts}
        \cup {LLMResult("dict", None), LLMResult("raise", None)}

ChatResults ==
    {LLMResult("dict", Some("chat reply")), LLMResult("dict", None),
     LLMResult("none", None), LLMResult("raise", None)}

\* the fallback of _generate_next_question for a dict without "message"
DefaultQuestion == "What specific improvements would you like to see?"

QuestionResults ==
    {LLMResult("dict", Some("Q1")), LLMResult("dict", Some("")),
     LLMResult("dict", None), LLMResult("raise", None)}

SummaryResults ==
    {LLMResult("dict", Some("json")), LLMResult("raise", None)}

\* how one RetrievalAgent.handle_message call goes
RetrievalOutcomes ==
    {"llm_not_configured", "answer_section", "full_message",
     "falsy_selection", "no_message", "exception", "run_raises"}

\* how NotificationAgent(config) and its handle_message go
NotificationOutcomes == {"ok", "ctor_raises", "mongo_fails", "slack_fails"}

\* how ProbingAgent(config) goes
ConstructorOutcomes == {"ok", "raises"}

----------------------------------------------------------------------------
(* The working state of a call: the agents' fields, what the call has done *)
(* so far, the exception that is propagating and the value just returned.  *)

Raise(s, e) == [s EXCEPT !.pending = Some(e), !.exc = Some(e)]

Caught(s) == [s EXCEPT !.pending = None]

Return(s, v) == [s EXCEPT !.ret = v]

Invoked(s, callee, outcome) ==
    [s EXCEPT !.invoked = Append(@, <<callee, outcome>>)]

\* Python truthiness of an Optional[str]
Truthy(v) == v # None /\ v[1] # ""

\* a returned text: what kind of text it is and the value it carries
Text(kind, val) == [kind |-> kind, val |-> val]

\* Agent.transition_to without the isinstance test
transition_to_unchecked(s, new_state) ==
    [s EXCEPT !.state = new_state, !.transitions = Append(@, new_state)]

\* Agent.transition_to
transition_to(s, new_state) ==
    IF new_state \notin AgentState
    THEN Raise(s, "ValueError")
    ELSE [s EXCEPT !.state = new_state, !.transitions = Append(@, new_state)]

----------------------------------------------------------------------------
(* ProbingAgent *)

\* ProbingAgent.__init__, assigned to MainAgent.probing_agent
ProbingAgent(s, ctor) ==
    IF ctor = "raises"
    THEN Raise(s, "ConstructorError")
    ELSE [s EXCEPT !.collected_responses = <<>>,
                   !.question_counter = 0,
                   !.current_question = None]

\* ProbingAgent._store_response
_store_response(s, question, answer) ==
    LET k == s.question_counter + 1
    IN  [s EXCEPT !.question_counter = k,
                  !.collected_responses =
                      Append(@, [question_id |-> <<"question", k>>,
                                 question |-> question,
                                 answer_id |-> <<"answer", k>>,
                                 answer |-> answer])]

\* ProbingAgent._generate_next_question
_generate_next_question(s, llm) ==
    CASE llm.kind = "raise" -> Raise(s, "LLMError")
      [] llm.kind = "none" -> Raise(s, "AttributeError")
      [] llm.kind = "nokey" -> Return(s, Some(DefaultQuestion))
      [] OTHER -> Return(s, llm.message)

\* ProbingAgent._create_summary: always a dict
_create_summary(s, llm) ==
    LET findings ==
            CASE llm.kind = "dict" /\ llm.message = Some("json") -> "parsed"
              [] llm.kind = "dict" /\ llm.message # None -> "Unable to parse response"
              [] llm.kind = "nokey" -> "empty"
              [] OTHER -> "Error generating summary"
        status ==
            IF findings = "Error generating summary" THEN "error" ELSE "complete"
    IN  Return(s, [status |-> status, findings |-> findings,
                   responses |-> s.collected_responses])

\* ProbingAgent.handle_message recording every message, outstanding question
\* or not
ProbingAgent_handle_message_stores_first(s, message, question, summary) ==
    LET s1 == _store_response(s, IF s.current_question = None THEN ""
                                 ELSE s.current_question[1], message)
    IN  IF s1.question_counter >= MaxQuestions
        THEN LET s2 == _create_summary(s1, summary)
             IN  Return(Invoked(s2, "probing_agent", "summary"),
                        <<"dict", s2.ret>>)
        ELSE LET s2 == _generate_next_question(s1, question)
             IN  IF s2.pending # None
                 THEN Invoked(s2, "probing_agent", "raised")
                 ELSE Return(Invoked([s2 EXCEPT !.current_question = s2.ret],
                                     "probing_agent", "question"),
                             <<"str", s2.ret>>)

\* ProbingAgent.handle_message: ret is <<"dict", summary>> or <<"str", question>>
ProbingAgent_handle_message(s, message, question, summary) ==
    LET s1 == IF Truthy(s.current_question)
              THEN _store_response(s, s.current_question[1], message)
              ELSE s
    IN  IF s1.question_counter >= MaxQuestions
        THEN LET s2 == _create_summary(s1, summary)
             IN  Return(Invoked(s2, "probing_agent", "summary"),
                        <<"dict", s2.ret>>)
        ELSE LET s2 == _generate_next_question(s1, question)
             IN  IF s2.pending # None
                 THEN Invoked(s2, "probing_agent", "raised")
                 ELSE Return(Invoked([s2 EXCEPT !.current_question = s2.ret],
                                     "probing_agent", "question"),
                             <<"str", s2.ret>>)

----------------------------------------------------------------------------
(* RetrievalAgent and NotificationAgent, as the orchestrator sees them *)

\* RetrievalAgent.handle_message: asyncio.run(handle_message_parallel(..)).
\* Every return of handle_message_parallel is a text; an exception inside it
\* is caught there, puts the retrieval agent in ERROR and is returned as text.
RetrievalAgent_handle_message(s, outcome) ==
    LET processing == [s EXCEPT !.retrieval_state = "processing"]
        done(r, text) == Return(Invoked(r, "retrieval_agent", outcome), Some(text))
    IN  CASE outcome = "run_raises" ->
                Invoked(Raise(s, "RuntimeError"), "retrieval_agent", outcome)
          [] outcome = "llm_not_configured" ->
                done(s, "LLM not configured")
          [] outcome = "falsy_selection" ->
                done(processing, "Failed to evaluate search results.")
          [] outcome = "answer_section" ->
                done(processing, "text after ANSWER:")
          [] outcome = "full_message" ->
                done(processing, "full model output")
          [] outcome = "no_message" ->
                done(processing, "No relevant information found.")
          [] OTHER ->
                done([s EXCEPT !.retrieval_state = "error"],
                     "Error in message handling: ..")

\* NotificationAgent.handle_message: a failing store or Slack delivery is
\* caught inside and reported in the returned text
NotificationAgent_handle_message(s, message, outcome) ==
    LET sent == Invoked([s EXCEPT !.notified = Some(message)],
                        "notification_agent", outcome)
    IN  IF outcome = "mongo_fails"
        THEN Return(sent, Some("Error: .."))
        ELSE Return(sent, Some("Notification processed successfully"))

----------------------------------------------------------------------------
(* MainAgent *)

\* MainAgent._reset leaving current_answer as it is
_reset_keeps_answer(s) ==
    [transition_to(s, "idle") EXCEPT !.current_query = None,
                                     !.probe_count = 0]

\* MainAgent._reset clearing the context without the transition to IDLE
_reset_keeps_state(s) ==
    [s EXCEPT !.current_query = None,
              !.current_answer = None,
              !.probe_count = 0]

\* MainAgent._reset
_reset(s) ==
    [transition_to(s, "idle") EXCEPT !.current_query = None,
                                     !.current_answer = None,
                                     !.probe_count = 0]

\* the classification outcomes that are no label
_classify_query_failure(s, llm) ==
    CASE llm.kind = "raise" ->
            Invoked(Raise(s, "LLMError"), "_classify_query", "raised")
      [] llm.kind = "none" ->
            Invoked(Raise(s, "AttributeError"), "_classify_query", "raised")
      [] OTHER ->
            Invoked(Raise(s, "TypeError"), "_classify_query", "raised")

\* MainAgent._classify_query matching the label in any case
_classify_query_ignoring_case(s, llm) ==
    IF llm.kind # "dict" \/ llm.message = None
    THEN _classify_query_failure(s, llm)
    ELSE LET query_type == IF Contains(general_chat, lower(llm.message[1]))
                           THEN "general_chat"
                           ELSE "needs_retrieval"
         IN  Return(Invoked([s EXCEPT !.classified = llm.message],
                            "_classify_query", query_type),
                    query_type)

\* MainAgent._classify_query taking only the bare label for general chat
_classify_query_exact(s, llm) ==
    IF llm.kind # "dict" \/ llm.message = None
    THEN _classify_query_failure(s, llm)
    ELSE LET query_type == IF llm.message[1] = general_chat
                           THEN "general_chat"
                           ELSE "needs_retrieval"
         IN  Return(Invoked([s EXCEPT !.classified = llm.message],
                            "_classify_query", query_type),
                    query_type)

\* MainAgent._classify_query
_classify_query(s, llm) ==
    CASE llm.kind = "raise" ->
            Invoked(Raise(s, "LLMError"), "_classify_query", "raised")
      [] llm.kind = "none" ->
            Invoked(Raise(s, "AttributeError"), "_classify_query", "raised")
      [] llm.kind = "nokey" \/ llm.message = None ->
            Invoked(Raise(s, "TypeError"), "_classify_query", "raised")
      [] OTHER ->
            LET query_type == IF Contains(general_chat, llm.message[1])
                              THEN "general_chat"
                              ELSE "needs_retrieval"
            IN  Return(Invoked([s EXCEPT !.classified = llm.message],
                               "_classify_query", query_type),
                       query_type)

\* MainAgent._handle_general_chat
_handle_general_chat(s, llm) ==
    IF llm.kind = "raise"
    THEN Invoked(Raise(s, "LLMError"), "_handle_general_chat", "raised")
    ELSE Return(Invoked(s, "_handle_general_chat", llm.kind), llm)

\* MainAgent._handle_new_query leaving context.current_query as it was
_handle_new_query_keeps_query(s, query, classification, chat, retrieval) ==
    LET s1 == s
        s2 == _classify_query(s1, classification)
        general ==
            LET g == _handle_general_chat(s2, chat)
            IN  IF g.pending # None THEN g
                ELSE IF g.ret.kind = "none" THEN Raise(g, "AttributeError")
                ELSE Return(g, Text("chat", g.ret.message))
        retrieve ==
            LET r1 == transition_to(s2, "retrieving")
                r2 == RetrievalAgent_handle_message(r1, retrieval)
                r3 == [r2 EXCEPT !.current_answer = r2.ret]
                r4 == transition_to(r3, "waiting_feedback")
            IN  IF r2.pending # None THEN r2
                ELSE Return(r4, Text("answer, satisfied?", r2.ret))
        tried == IF s2.ret = "general_chat" THEN general ELSE retrieve
    IN  IF s2.pending # None THEN s2
        ELSE IF tried.pending # None
        THEN Return(transition_to(Caught(tried), "error"),
                    Text("Failed to get answer", tried.pending))
        ELSE tried

\* MainAgent._handle_new_query
_handle_new_query(s, query, classification, chat, retrieval) ==
    LET s1 == [s EXCEPT !.current_query = Some(query)]
        s2 == _classify_query(s1, classification)
        general ==
            LET g == _handle_general_chat(s2, chat)
            IN  IF g.pending # None THEN g
                ELSE IF g.ret.kind = "none" THEN Raise(g, "AttributeError")
                ELSE Return(g, Text("chat", g.ret.message))
        retrieve ==
            LET r1 == transition_to(s2, "retrieving")
                r2 == RetrievalAgent_handle_message(r1, retrieval)
                r3 == [r2 EXCEPT !.current_answer = r2.ret]
                r4 == transition_to(r3, "waiting_feedback")
            IN  IF r2.pending # None THEN r2
                ELSE Return(r4, Text("answer, satisfied?", r2.ret))
        tried == IF s2.ret = "general_chat" THEN general ELSE retrieve
    IN  IF s2.pending # None THEN s2
        ELSE IF tried.pending # None
        THEN Return(transition_to(Caught(tried), "error"),
                    Text("Failed to get answer", tried.pending))
        ELSE tried

\* MainAgent._handle_notification
_handle_notification(s, notification) ==
    LET n1 == IF notification = "ctor_raises"
              THEN Raise(s, "ConstructorError")
              ELSE NotificationAgent_handle_message(
                       s,
                       [feedback_type |-> s.feedback_type,
                        original_query |-> s.current_query,
                        probe_summary |-> s.probe_results],
                       notification)
        n2 == _reset(transition_to(n1, "done"))
    IN  IF n1.pending # None
        THEN Return(transition_to(Caught(n1), "error"),
                    Text("Error processing feedback", n1.pending))
        ELSE Return(n2, Text("Thank you for your feedback", None))

\* MainAgent._handle_feedback after the two vocabulary tests
_handle_feedback_as(s, feedback, sat, unsat, ctor, question, summary) ==
    LET f1 == [s EXCEPT !.feedback_type = Some("unsatisfied")]
        f2 == ProbingAgent(f1, ctor)
        f3 == transition_to(f2, "probing")
        f4 == ProbingAgent_handle_message(f3, feedback, question, summary)
    IN  IF sat
        THEN Return(_reset(transition_to(s, "done")), Text("Great!", None))
        ELSE IF unsat
        THEN IF f2.pending # None THEN f2
             ELSE IF f4.pending # None THEN f4
             ELSE IF f4.ret[1] = "dict"
             THEN Return(f4, Text("summary", None))
             ELSE Return(f4, Text("question", f4.ret[2]))
        ELSE Return(s, Text("Please indicate if you're satisfied", None))

\* MainAgent._handle_feedback looking for a vocabulary word inside the feedback
_handle_feedback_substring(s, message, ctor, question, summary) ==
    LET feedback == strip(lower(message))
    IN  _handle_feedback_as(
            s, feedback,
            \E w \in FEEDBACK_SATISFIED : Contains(w, feedback),
            \E w \in FEEDBACK_UNSATISFIED : Contains(w, feedback),
            ctor, question, summary)

\* MainAgent._handle_feedback
_handle_feedback(s, message, ctor, question, summary) ==
    LET feedback == strip(lower(message))
    IN  _handle_feedback_as(s, feedback,
                            feedback \in FEEDBACK_SATISFIED,
                            feedback \in FEEDBACK_UNSATISFIED,
                            ctor, question, summary)

\* MainAgent.handle_message in PROBING.  AgentState.NOTIFYING is an attribute
\* access on the enumeration: an AttributeError when it has no such member.
_handle_probing(s, message, question, summary, notification) ==
    LET p1 == ProbingAgent_handle_message(s, message, question, summary)
        p2 == [p1 EXCEPT !.probe_results = Some(p1.ret[2])]
        p3 == IF "notifying" \in AgentState
              THEN transition_to(p2, "notifying")
              ELSE Raise(p2, "AttributeError")
    IN  IF p1.pending # None THEN p1
        ELSE IF p1.ret[1] = "dict"
        THEN IF p3.pending # None THEN p3
             ELSE _handle_notification(p3, notification)
        ELSE Return(p1, Text("question", p1.ret[2]))

\* the self-heal step answering without leaving ERROR
_self_heal_stays(s) ==
    Return(s, Text("Error occurred. Please try your question again.", None))

\* MainAgent.handle_message in ERROR: the self-heal step
_self_heal(s) ==
    Return(transition_to(s, "idle"),
           Text("Error occurred. Please try your question again.", None))

\* MainAgent.handle_message in a state no handler is bound to
_unbound_state(s) ==
    Return(transition_to(s, "error"),
           Text("System error. Please try again.", None))

\* MainAgent.handle_message without its except clause
_except_absent(tried) == tried

\* the except clause answering without the transition to ERROR
_except_keeps_state(tried) ==
    IF tried.pending # None
    THEN Return(Caught(tried), Text("Error", tried.pending))
    ELSE tried

\* MainAgent.handle_message: the except clause around the dispatch
_except(tried) ==
    IF tried.pending # None
    THEN Return(transition_to(Caught(tried), "error"),
                Text("Error", tried.pending))
    ELSE tried

\* MainAgent.handle_message
handle_message(s, message, env) ==
    _except(
        IF s.state = "idle"
        THEN _handle_new_query(s, message, env.classification, env.chat,
                               env.retrieval)
        ELSE IF s.state = "waiting_feedback"
        THEN _handle_feedback(s, message, env.ctor, env.question, env.summary)
        ELSE IF s.state = "probing"
        THEN _handle_probing(s, message, env.question, env.summary,
                             env.notification)
        ELSE IF s.state = "error"
        THEN _self_heal(s)
        ELSE _unbound_state(s))

----------------------------------------------------------------------------
(* Task: a bounded run of an agent, with sub-tasks.  The tasks and their    *)
(* agents are the fields of a record w, which also carries the outcomes the *)
(* agents' handlers will have (script, read in call order), the events of   *)
(* the operation so far (log), the propagating exception and the value just *)
(* returned.                                                                *)

\* the tasks of the model; each owns one agent, which bears the task's name
Tasks == {"T1", "T2", "T3"}

\* the sub-task lists add_sub_task has built: T1 with T2 and T3 in this
\* order, or T1 with T2 and T2 with T3
Topologies ==
    {[T1 |-> <<"T2", "T3">>, T2 |-> <<>>, T3 |-> <<>>],
     [T1 |-> <<"T2">>, T2 |-> <<"T3">>, T3 |-> <<>>]}

\* Task.__init__
Task(agent, single_round, max_steps, sub_tasks) ==
    [agent |-> agent, single_round |-> single_round, max_steps |-> max_steps,
     pending_message |-> None, step_count |-> 0, sub_tasks |-> sub_tasks]

\* what one call of an agent's handle_message does: it returns a text, None
\* or an empty text and leaves the agent in some state, or it raises
HandlerOutcomes ==
    {[kind |-> "text", to |-> "processing"],
     [kind |-> "text", to |-> "done"],
     [kind |-> "text", to |-> "error"],
     [kind |-> "none", to |-> "idle"],
     [kind |-> "raise", to |-> "processing"]}

\* messages and responses: who produced the text and as which handler call
Message(text, by, n) == <<text, by, n>>

InitialMessage == Message("user message", "user", 0)

EmptyText == Message("", "", 0)

NoResponse(t) == Message("Task completed without response", t, 0)

\* Python truthiness of a message or response
Falsy(v) == v = None \/ v[1] = ""

\* an event of an operation: what happened, to which task, with which
\* message, what came back, the agent's state and the task's step_count then
Event(w, ev, t, m, r) ==
    [ev |-> ev, task |-> t, msg |-> m, ret |-> r,
     st |-> w.agents[w.tasks[t].agent], n |-> w.tasks[t].step_count]

Log(w, ev, t, m, r) == [w EXCEPT !.log = Append(@, Event(w, ev, t, m, r))]

\* agent.transition_to(new_state) on the agent of task t
Agent_transition_to(w, t, new_state) ==
    LET a == w.tasks[t].agent
        r == transition_to([state |-> w.agents[a], transitions |-> <<>>,
                            pending |-> None, exc |-> None], new_state)
    IN  [w EXCEPT !.agents[a] = r.state, !.pending = r.pending]

\* agent.handle_message(message) of the agent of task t: the next outcome of
\* the script
Agent_handle_message(w, t, message) ==
    LET a == w.tasks[t].agent
        o == w.script[(w.used % Len(w.script)) + 1]
        n == w.used + 1
        w1 == [w EXCEPT !.used = n]
        w2 == [w1 EXCEPT !.agents[a] = o.to]
        value == CASE o.kind = "text" -> Message("reply", a, n)
                   [] o.kind = "empty" -> EmptyText
                   [] OTHER -> None
    IN  IF o.kind = "raise"
        THEN [Log(w2, "raised", t, message, None) EXCEPT !.pending = Some("HandlerError")]
        ELSE [Log(w2, "handled", t, message, value) EXCEPT !.ret = value]

\* Task.is_done taking only DONE for terminal
is_done_only_done(w, t) == w.agents[w.tasks[t].agent] = "done"

\* Task.is_done
is_done(w, t) == w.agents[w.tasks[t].agent] \in {"done", "error"}

RECURSIVE Task_run(_, _, _)
RECURSIVE Task_loop(_, _, _)
RECURSIVE Task_step(_, _)
RECURSIVE Task_sub_tasks(_, _, _, _)

\* Task.step, the loop over sub_tasks from the i-th on: resp is the
\* parent's response so far
Task_sub_tasks(w, t, i, resp) ==
    IF i > Len(w.tasks[t].sub_tasks)
    THEN [w EXCEPT !.ret = resp]
    ELSE LET sub == Task_run(w, w.tasks[t].sub_tasks[i], resp)
             folded == Agent_handle_message(sub, t, sub.ret)
         IN  IF sub.pending # None THEN sub
             ELSE IF Falsy(sub.ret)
             THEN Task_sub_tasks(sub, t, i + 1, resp)
             ELSE IF folded.pending # None THEN folded
             ELSE Task_sub_tasks(folded, t, i + 1, folded.ret)

\* Task.step never forcing DONE
Task_step_end_no_single_round(w, t, body) ==
    LET stored == [body EXCEPT !.tasks[t].pending_message = body.ret]
        failed == Agent_transition_to([body EXCEPT !.pending = None], t, "error")
    IN  IF body.pending # None
        THEN [Log(failed, "step failed", t, None, None) EXCEPT !.ret = None]
        ELSE Log(stored, "step returned", t, None, body.ret)

\* Task.step with an except clause that leaves the agent's state alone
Task_step_end_keeps_state(w, t, body) ==
    LET stored == [body EXCEPT !.tasks[t].pending_message = body.ret]
        ended == IF w.tasks[t].single_round
                 THEN Agent_transition_to(stored, t, "done")
                 ELSE stored
        failed == [body EXCEPT !.pending = None]
    IN  IF body.pending # None
        THEN [Log(failed, "step failed", t, None, None) EXCEPT !.ret = None]
        ELSE Log(ended, "step returned", t, None, body.ret)

\* Task.step: the statements after the try block's body has run
Task_step_end(w, t, body) ==
    LET stored == [body EXCEPT !.tasks[t].pending_message = body.ret]
        ended == IF w.tasks[t].single_round
                 THEN Agent_transition_to(stored, t, "done")
                 ELSE stored
        failed == Agent_transition_to([body EXCEPT !.pending = None], t, "error")
    IN  IF body.pending # None
        THEN [Log(failed, "step failed", t, None, None) EXCEPT !.ret = None]
        ELSE Log(ended, "step returned", t, None, body.ret)

\* Task.step running the sub-tasks whatever the agent's state
Task_step_ignores_error(w, t) ==
    LET w0 == Log(w, "step", t, w.tasks[t].pending_message, None)
        handled == Agent_handle_message(w0, t, w.tasks[t].pending_message)
        body == IF handled.pending # None THEN handled
                ELSE IF Len(w.tasks[t].sub_tasks) > 0
                THEN Task_sub_tasks(handled, t, 1, handled.ret)
                ELSE handled
    IN  IF w.tasks[t].pending_message = None
        THEN [Log(w0, "step skipped", t, None, None) EXCEPT !.ret = None]
        ELSE Task_step_end(w, t, body)

\* Task.step
Task_step(w, t) ==
    LET w0 == Log(w, "step", t, w.tasks[t].pending_message, None)
        handled == Agent_handle_message(w0, t, w.tasks[t].pending_message)
        body == IF handled.pending # None THEN handled
                ELSE IF Len(w.tasks[t].sub_tasks) > 0
                        /\ handled.agents[w.tasks[t].agent] # "error"
                THEN Task_sub_tasks(handled, t, 1, handled.ret)
                ELSE handled
    IN  IF w.tasks[t].pending_message = None
        THEN [Log(w0, "step skipped", t, None, None) EXCEPT !.ret = None]
        ELSE Task_step_end(w, t, body)

\* Task.run stepping while step_count <= max_steps
Task_loop_inclusive(w, t, resp) ==
    IF ~is_done(w, t) /\ w.tasks[t].step_count <= w.tasks[t].max_steps
    THEN LET s == Task_step(w, t)
         IN  IF s.pending # None THEN s
             ELSE IF s.ret = None THEN s
             ELSE Task_loop([s EXCEPT !.tasks[t].step_count = @ + 1], t, s.ret)
    ELSE [w EXCEPT !.ret = resp]

\* Task.run: the while loop, resp being the last step's response
Task_loop(w, t, resp) ==
    IF ~is_done(w, t) /\ w.tasks[t].step_count < w.tasks[t].max_steps
    THEN LET s == Task_step(w, t)
         IN  IF s.pending # None THEN s
             ELSE IF s.ret = None THEN s
             ELSE Task_loop([s EXCEPT !.tasks[t].step_count = @ + 1], t, s.ret)
    ELSE [w EXCEPT !.ret = resp]

\* Task.run counting its steps from zero
Task_run_restarts_count(w, t, initial_message) ==
    LET w0 == [w EXCEPT !.tasks[t].pending_message = initial_message,
                        !.tasks[t].step_count = 0]
        w1 == Task_loop(Log(w0, "run", t, initial_message, None), t, None)
        value == IF Falsy(w1.ret) THEN NoResponse(t) ELSE w1.ret
        failed == Agent_transition_to([w1 EXCEPT !.pending = None], t, "error")
    IN  IF w1.pending # None
        THEN [Log(failed, "run returned", t, initial_message, Message("Task failed", t, 0))
                 EXCEPT !.ret = Message("Task failed", t, 0)]
        ELSE [Log(w1, "run returned", t, initial_message, value) EXCEPT !.ret = value]

\* Task.run
Task_run(w, t, initial_message) ==
    LET w0 == [w EXCEPT !.tasks[t].pending_message = initial_message]
        w1 == Task_loop(Log(w0, "run", t, initial_message, None), t, None)
        value == IF Falsy(w1.ret) THEN NoResponse(t) ELSE w1.ret
        failed == Agent_transition_to([w1 EXCEPT !.pending = None], t, "error")
    IN  IF w1.pending # None
        THEN [Log(failed, "run returned", t, initial_message, Message("Task failed", t, 0))
                 EXCEPT !.ret = Message("Task failed", t, 0)]
        ELSE [Log(w1, "run returned", t, initial_message, value) EXCEPT !.ret = value]

RECURSIVE Task_reset(_, _)
RECURSIVE Task_reset_sub_tasks(_, _, _)

\* Task.reset leaving the sub-tasks alone
Task_reset_sub_tasks_skipped(w, t, i) == w

\* Task.reset, the loop over sub_tasks from the i-th on
Task_reset_sub_tasks(w, t, i) ==
    IF i > Len(w.tasks[t].sub_tasks) \/ w.pending # None
    THEN w
    ELSE Task_reset_sub_tasks(Task_reset(w, w.tasks[t].sub_tasks[i]), t, i + 1)

\* Task.reset
Task_reset(w, t) ==
    LET w0 == Log(w, "reset", t, w.tasks[t].pending_message, None)
        w1 == [w0 EXCEPT !.tasks[t].pending_message = None,
                         !.tasks[t].step_count = 0]
        w2 == Agent_transition_to(w1, t, "idle")
    IN  IF w2.pending # None THEN w2
        ELSE Task_reset_sub_tasks(w2, t, 1)

----------------------------------------------------------------------------
(* Tool registry and dispatch (Agent.register_tool, Agent._execute_tools)  *)

\* str.replace(sub, "") on s: sub removed wherever it occurs, left to right
RECURSIVE remove(_, _)
remove(sub, s) ==
    IF Len(s) < Len(sub) THEN s
    ELSE IF SubSeq(s, 1, Len(sub)) = sub
    THEN remove(sub, SubSeq(s, Len(sub) + 1, Len(s)))
    ELSE <<s[1]>> \o remove(sub, Tail(s))

\* a tool class: its __name__, the default it declares for the field
\* request (None when it declares none) and what getattr(cls, "request",
\* None) gives: None for a field of the model, which is no attribute of the
\* class, the value for a plain class attribute
ToolClass(id, name, declared, attr) ==
    [id |-> id, name |-> name, declared |-> declared, attr |-> attr]

\* request: str = "geo"
GeoTool == ToolClass("GeoTool", <<"G", "e", "o", "T", "o", "o", "l">>, Some(<<"g", "e", "o">>), None)

\* request: str = "geo", the request name of GeoTool
CTool == ToolClass("CTool", <<"C", "T", "o", "o", "l">>, Some(<<"g", "e", "o">>), None)

\* request: str = "nets"
NetTool == ToolClass("NetTool", <<"N", "e", "t", "T", "o", "o", "l">>, Some(<<"n", "e", "t", "s">>), None)

\* request: ClassVar[str] = "Ego"
EgoTool == ToolClass("EgoTool", <<"E", "g", "o", "T", "o", "o", "l">>, None, Some(<<"E", "g", "o">>))

ToolClasses == {GeoTool, CTool, NetTool, EgoTool}

\* the texts _execute_tools is called with, and None
LLMResponses == {None, Some(<<"h", "e", "l", "l", "o">>), Some(<<"u", "s", "e", " ", "G", "E", "O">>), Some(<<"N", "e", "t", "s">>)}

\* ToolMessage.get_request_type
get_request_type(cls) ==
    IF cls.attr # None /\ cls.attr[1] # <<>>
    THEN cls.attr[1]
    ELSE remove(<<"t", "o", "o", "l">>, lower(cls.name))

\* ToolMessage.default_value("request"): the default the class declares
default_value(cls) == cls.declared

\* Agent.__init__, self.tools = {}: heap holds the dicts there are; the
\* agent gets a new, empty one, and ref is the place of the agent's dict
Agent_init_tools(heap) == [heap |-> Append(heap, <<>>), ref |-> Len(heap) + 1]

\* the name register_tool stores a class under
tool_name_of(cls) ==
    IF default_value(cls) # None /\ default_value(cls)[1] # <<>>
    THEN default_value(cls)[1]
    ELSE lower(cls.name)

\* Agent.register_tool adding an entry whatever the dict holds
register_tool_appending(registry, cls) ==
    Append(registry, [key |-> tool_name_of(cls), cls |-> cls])

\* Agent.register_tool: the dict after self.tools[tool_name] = tool_class
register_tool(registry, cls) ==
    LET tool_name == tool_name_of(cls)
        entry == [key |-> tool_name, cls |-> cls]
    IN  IF \E i \in DOMAIN registry : registry[i].key = tool_name
        THEN [i \in DOMAIN registry |->
                 IF registry[i].key = tool_name THEN entry ELSE registry[i]]
        ELSE Append(registry, entry)

\* the values a handler returns: None, a str, a list
PyNone == [type |-> "NoneType", val |-> <<>>]

Str(chars) == [type |-> "str", val |-> chars]

List(elements) == [type |-> "list", val |-> elements]

\* Python truthiness of such a value
Bool(v) == v.val # <<>>

\* what one _try_tool call meets: the parameter extraction or the
\* construction of the tool raises, the agent has no handler of the tool's
\* name, the handler (or the generate call before it) raises, or the handler
\* returns a value
ToolOutcome(kind, value) == [kind |-> kind, value |-> value]

\* the texts of the handlers
ErrorNotConfigured ==
    <<"E", "r", "r", "o", "r", ":", " ", "n", "o", "t", " ", "c", "o", "n",
      "f", "i", "g", "u", "r", "e", "d">>

NotFound ==
    <<"N", "o", "t", " ", "f", "o", "u", "n", "d">>

NoRelevant ==
    <<"N", "o", " ", "r", "e", "l", "e", "v", "a", "n", "t">>

CouldntFind ==
    <<"C", "o", "u", "l", "d", "n", "'", "t", " ", "f", "i", "n", "d">>

Ok ==
    <<"o", "k">>

HandlerResults ==
    {PyNone, Str(<<>>), Str(ErrorNotConfigured), Str(NotFound), Str(NoRelevant),
     Str(CouldntFind), Str(Ok), List(<<>>), List(<<"document">>)}

ToolOutcomes ==
    {ToolOutcome("params raise", PyNone), ToolOutcome("no handler", PyNone),
     ToolOutcome("handler raises", PyNone)}
        \cup {ToolOutcome("result", r) : r \in HandlerResults}

error_patterns ==
    {<<"e", "r", "r", "o", "r">>, <<"n", "o", "t", " ", "f", "o", "u", "n", "d">>, <<"n", "o", " ", "r", "e", "l", "e", "v", "a", "n", "t">>, <<"c", "o", "u", "l", "d", "n", "'", "t", " ", "f", "i", "n", "d">>, <<"n", "o", "t", " ", "c", "o", "n", "f", "i", "g", "u", "r", "e", "d">>}

\* Agent._is_valid_result comparing the patterns with the result as it is
_is_valid_result_case_sensitive(r) ==
    CASE r.type = "NoneType" -> FALSE
      [] r.type = "str" -> ~\E pattern \in error_patterns : Contains(pattern, r.val)
      [] OTHER -> Bool(r)

\* Agent._is_valid_result
_is_valid_result(r) ==
    CASE r.type = "NoneType" -> FALSE
      [] r.type = "str" ->
            ~\E pattern \in error_patterns : Contains(pattern, lower(r.val))
      [] OTHER -> Bool(r)

\* Agent._get_specific_tool: the place in the registry of the first tool
\* whose request type is in the message, 0 for None
_get_specific_tool(registry, message) ==
    LET named == {i \in DOMAIN registry :
                     Contains(lower(get_request_type(registry[i].cls)),
                              lower(message))}
    IN  IF named = {} THEN 0
        ELSE CHOOSE i \in named : \A j \in named : i <= j

\* the ways of a _try_tool call that end in an exception
Raising == {"params raise", "handler raises"}

\* Agent._try_tool, the try block: d is the dispatch so far, its tries
\* (log), the value just returned (ret), the exception on its way up
\* (pending) and the agent's state
_try_tool_body(d, cls, outcome) ==
    LET returned == IF outcome.kind = "result" /\ _is_valid_result(outcome.value)
                    THEN outcome.value
                    ELSE PyNone
        tried == [d EXCEPT !.log = Append(@, [tool |-> cls.id,
                                              outcome |-> outcome,
                                              returned |-> returned])]
    IN  IF outcome.kind \in Raising
        THEN [tried EXCEPT !.pending = Some(outcome.kind)]
        ELSE [tried EXCEPT !.ret = returned]

\* Agent._try_tool without its except clause
_try_tool_except_absent(tried) == tried

\* Agent._try_tool, the except clause
_try_tool_except(tried) ==
    IF tried.pending # None
    THEN [tried EXCEPT !.pending = None, !.ret = PyNone]
    ELSE tried

\* Agent._try_tool
_try_tool(d, cls, outcome) == _try_tool_except(_try_tool_body(d, cls, outcome))

\* what the next try of the dispatch d meets: outcomes gives what the
\* successive tries of one dispatch meet, over and over
NextOutcome(d, outcomes) == outcomes[(Len(d.log) % Len(outcomes)) + 1]

\* Agent._execute_tools: the loop going on after a result that passes
RECURSIVE _execute_tools_loop_tries_all(_, _, _, _)
_execute_tools_loop_tries_all(d, registry, i, outcomes) ==
    IF i > Len(registry)
    THEN d
    ELSE LET r == _try_tool(d, registry[i].cls, NextOutcome(d, outcomes))
         IN  IF r.pending # None THEN r
             ELSE _execute_tools_loop_tries_all(r, registry, i + 1, outcomes)

\* Agent._execute_tools: the loop over self.tools.values() from the i-th on
RECURSIVE _execute_tools_loop(_, _, _, _)
_execute_tools_loop(d, registry, i, outcomes) ==
    IF i > Len(registry)
    THEN [d EXCEPT !.ret = PyNone]
    ELSE LET r == _try_tool(d, registry[i].cls, NextOutcome(d, outcomes))
         IN  IF r.pending # None \/ Bool(r.ret) THEN r
             ELSE _execute_tools_loop(r, registry, i + 1, outcomes)

\* Agent._execute_tools, the try block: llm_response is None or a text,
\* and None has no lower()
_execute_tools_body(d, registry, llm_response, outcomes) ==
    LET specific_tool == _get_specific_tool(registry, llm_response[1])
        r == _try_tool(d, registry[specific_tool].cls, NextOutcome(d, outcomes))
    IN  IF llm_response = None THEN [d EXCEPT !.pending = Some("AttributeError")]
        ELSE IF specific_tool = 0
        THEN _execute_tools_loop(d, registry, 1, outcomes)
        ELSE IF r.pending # None \/ Bool(r.ret) THEN r
        ELSE _execute_tools_loop(r, registry, 1, outcomes)

\* Agent._execute_tools, the except clause
_execute_tools_except(tried) ==
    IF tried.pending # None
    THEN [tried EXCEPT !.pending = None, !.ret = PyNone]
    ELSE tried

\* Agent._execute_tools called with the agent in the state _state
_execute_tools(_state, registry, llm_response, outcomes) ==
    LET d == [log |-> <<>>, ret |-> PyNone, pending |-> None, state |-> _state]
    IN  _execute_tools_except(_execute_tools_body(d, registry, llm_response, outcomes))

----------------------------------------------------------------------------
(* The state machine: one step is one handle_message call *)

\* MainAgent.__init__
MainAgent_init ==
    /\ state = "idle"
    /\ current_query = None
    /\ current_answer = None
    /\ probe_count = 0
    /\ feedback_type = None
    /\ probe_results = None
    /\ collected_responses = <<>>
    /\ question_counter = 0
    /\ current_question = None
    /\ retrieval_state = "idle"
    /\ msg = None
    /\ start_state = "idle"
    /\ transitions = <<>>
    /\ invoked = <<>>
    /\ response = Text("none", None)
    /\ exc = None
    /\ propagated = None
    /\ notified = None
    /\ classified = None
    /\ calls = 0

\* no Task has been constructed
NoTasks ==
    /\ tasks = None
    /\ agents = None
    /\ script = None
    /\ used = 0
    /\ op = None
    /\ events = <<>>
    /\ result = None
    /\ rejected = None
    /\ ops = 0

Init == MainAgent_init /\ NoTasks /\ tools = <<>>

\* the agents as a call finds them, with nothing done yet
Entry ==
    [state |-> state,
     current_query |-> current_query,
     current_answer |-> current_answer,
     probe_count |-> probe_count,
     feedback_type |-> feedback_type,
     probe_results |-> probe_results,
     collected_responses |-> collected_responses,
     question_counter |-> question_counter,
     current_question |-> current_question,
     retrieval_state |-> retrieval_state,
     transitions |-> <<>>,
     invoked |-> <<>>,
     exc |-> None,
     notified |-> None,
     classified |-> None,
     pending |-> None,
     ret |-> None]

\* the agents as the call leaves them
Leave(r, message) ==
    /\ state' = r.state
    /\ current_query' = r.current_query
    /\ current_answer' = r.current_answer
    /\ probe_count' = r.probe_count
    /\ feedback_type' = r.feedback_type
    /\ probe_results' = r.probe_results
    /\ collected_responses' = r.collected_responses
    /\ question_counter' = r.question_counter
    /\ current_question' = r.current_question
    /\ retrieval_state' = r.retrieval_state
    /\ msg' = Some(message)
    /\ start_state' = state
    /\ transitions' = r.transitions
    /\ invoked' = r.invoked
    /\ response' = r.ret
    /\ exc' = r.exc
    /\ propagated' = r.pending
    /\ notified' = r.notified
    /\ classified' = r.classified
    /\ calls' = calls + 1

\* the end of a call of a behaviour that only has the orchestrator
Exit(r, message) == Leave(r, message) /\ UNCHANGED <<taskvars, tools>>

\* an input of a call that the path taken does not read
Unused == LLMResult("dict", Some("Q1"))

Env(classification, chat, retrieval, ctor, question, summary, notification) ==
    [classification |-> classification, chat |-> chat,
     retrieval |-> retrieval, ctor |-> ctor, question |-> question,
     summary |-> summary, notification |-> notification]

\* a message arrives in IDLE: a new query
NewQuery ==
    /\ calls < MaxCalls
    /\ state = "idle"
    /\ \E m \in Messages, c \in ClassificationResults :
         LET k == _classify_query(Entry, c)
             chats == IF k.pending = None /\ k.ret = "general_chat"
                      THEN ChatResults ELSE {Unused}
             retrievals == IF k.pending = None /\ k.ret # "general_chat"
                           THEN RetrievalOutcomes ELSE {"answer_section"}
         IN  \E chat \in chats, r \in retrievals :
                Exit(handle_message(Entry, m,
                         Env(c, chat, r, "ok", Unused, Unused, "ok")), m)

\* a message arrives in WAITING_FEEDBACK: the user's feedback
Feedback ==
    /\ calls < MaxCalls
    /\ state = "waiting_feedback"
    /\ \E m \in Messages :
         LET unsatisfied == strip(lower(m)) \in FEEDBACK_UNSATISFIED
             ctors == IF unsatisfied THEN ConstructorOutcomes ELSE {"ok"}
             questions == IF unsatisfied /\ MaxQuestions > 0
                          THEN QuestionResults ELSE {Unused}
             summaries == IF unsatisfied /\ MaxQuestions = 0
                          THEN SummaryResults ELSE {Unused}
         IN  \E ctor \in ctors, q \in questions, sm \in summaries :
                Exit(handle_message(Entry, m,
                         Env(Unused, Unused, "answer_section", ctor, q, sm,
                             "ok")), m)

\* a message arrives in PROBING: an answer to the outstanding question
Probe ==
    /\ calls < MaxCalls
    /\ state = "probing"
    /\ \E m \in Messages :
         LET finished ==
                 question_counter
                     + (IF Truthy(current_question) THEN 1 ELSE 0)
                     >= MaxQuestions
             questions == IF finished THEN {Unused} ELSE QuestionResults
             summaries == IF finished THEN SummaryResults ELSE {Unused}
             notifications == IF finished /\ "notifying" \in AgentState
                              THEN NotificationOutcomes ELSE {"ok"}
         IN  \E q \in questions, sm \in summaries, n \in notifications :
                Exit(handle_message(Entry, m,
                         Env(Unused, Unused, "answer_section", "ok", q, sm, n)),
                     m)

\* a message arrives in ERROR, or in a state no handler is bound to
Recover ==
    /\ calls < MaxCalls
    /\ state \notin {"idle", "waiting_feedback", "probing"}
    /\ \E m \in Messages :
         Exit(handle_message(Entry, m,
                  Env(Unused, Unused, "answer_section", "ok", Unused, Unused,
                      "ok")), m)

Next == NewQuery \/ Feedback \/ Probe \/ Recover

Spec == Init /\ [][Next]_vars

----------------------------------------------------------------------------
(* The state machine of the tasks: one step is one operation of the client *)
(* on the task it holds.  The sub-tasks are driven by their parents.       *)

\* the task the client holds
Root == "T1"

Scripts == [1..ScriptLen -> HandlerOutcomes]

Op(kind, t, m, v) == [kind |-> kind, task |-> t, msg |-> m, value |-> v]

\* three tasks constructed with one step ceiling, their sub-tasks added,
\* every agent in IDLE
TaskInit ==
    /\ MainAgent_init
    /\ \E topology \in Topologies, single_round \in [Tasks -> BOOLEAN],
          max_steps \in 0..MaxSteps :
          tasks = [t \in Tasks |->
                      Task(t, single_round[t], max_steps, topology[t])]
    /\ agents = [a \in Tasks |-> "idle"]
    /\ script \in Scripts
    /\ used = 0
    /\ op = Op("none", Root, None, "")
    /\ events = <<>>
    /\ result = None
    /\ rejected = None
    /\ ops = 0
    /\ tools = <<>>

\* the tasks and agents as an operation finds them
World ==
    [tasks |-> tasks, agents |-> agents, script |-> script, used |-> used,
     log |-> <<>>, pending |-> None, ret |-> None]

\* the tasks and agents as the operation leaves them
TaskExit(w, o) ==
    /\ tasks' = w.tasks
    /\ agents' = w.agents
    /\ used' = w.used
    /\ op' = o
    /\ events' = w.log
    /\ result' = w.ret
    /\ rejected' = w.pending
    /\ ops' = ops + 1
    /\ UNCHANGED <<mainvars, script, tools>>

\* task.run(initial_message)
TaskRun ==
    /\ ops < MaxOps
    /\ TaskExit(Task_run(World, Root, InitialMessage),
                Op("run", Root, InitialMessage, ""))

\* task.step()
TaskStep ==
    /\ ops < MaxOps
    /\ TaskExit(Task_step(World, Root), Op("step", Root, None, ""))

\* task.reset()
TaskReset ==
    /\ ops < MaxOps
    /\ TaskExit(Task_reset(World, Root), Op("reset", Root, None, ""))

TaskNext == TaskRun \/ TaskStep \/ TaskReset

TaskSpec == TaskInit /\ [][TaskNext]_vars

----------------------------------------------------------------------------
(* The state machine of an agent's state: one step is one transition_to    *)

\* values that are no member of AgentState: a member's name or value as a
\* plain string, a state of another revision
NonStates == {"IDLE", "notifying", ""}

\* Agent.__init__: three agents constructed, each held by a task of its own
AgentInit ==
    /\ MainAgent_init
    /\ tasks = [t \in Tasks |-> Task(t, FALSE, 0, <<>>)]
    /\ agents = [a \in Tasks |-> "idle"]
    /\ script = None
    /\ used = 0
    /\ op = Op("none", Root, None, "")
    /\ events = <<>>
    /\ result = None
    /\ rejected = None
    /\ ops = 0
    /\ tools = <<>>

\* agent.transition_to(v)
AgentTransition ==
    /\ ops < MaxOps
    /\ \E t \in Tasks, v \in AgentState \cup NonStates :
          TaskExit(Agent_transition_to(World, t, v),
                   Op("transition_to", t, None, v))

AgentNext == AgentTransition

AgentSpec == AgentInit /\ [][AgentNext]_vars

----------------------------------------------------------------------------
(* The state machine of one agent's tool registry: one step is one        *)
(* register_tool or one _execute_tools call                                *)

\* the state of the agent when its tools are tried: the one handle_message
\* sets before it calls _execute_tools
DispatchStates == {"processing"}

\* Agent.__init__: self.tools = {}
DispatchInit ==
    /\ MainAgent_init
    /\ tasks = None
    /\ agents \in DispatchStates
    /\ script \in [1..ScriptLen -> ToolOutcomes]
    /\ used = 0
    /\ op = [kind |-> "none"]
    /\ events = <<>>
    /\ result = PyNone
    /\ rejected = None
    /\ ops = 0
    /\ tools = <<>>

\* agent.register_tool(cls)
RegisterTool ==
    \E cls \in ToolClasses :
        /\ tools' = register_tool(tools, cls)
        /\ op' = [kind |-> "register_tool", cls |-> cls.id]
        /\ events' = <<>>
        /\ result' = PyNone
        /\ UNCHANGED <<mainvars, tasks, agents, script, used, rejected, ops>>

\* what the caller of _execute_tools gets: the value returned, or the
\* exception that came out of it
Outcome(d) ==
    IF d.pending # None THEN [type |-> "raised", val |-> d.pending] ELSE d.ret

\* agent._execute_tools(llm_response)
ExecuteTools ==
    \E llm_response \in LLMResponses :
        \E d \in {_execute_tools(agents, tools, llm_response, script)} :
            /\ op' = [kind |-> "_execute_tools", message |-> llm_response,
                      state |-> agents]
            /\ events' = d.log
            /\ result' = Outcome(d)
            /\ agents' = d.state
            /\ UNCHANGED <<mainvars, tasks, script, used, rejected, ops, tools>>

DispatchNext == RegisterTool \/ ExecuteTools

DispatchSpec == DispatchInit /\ [][DispatchNext]_vars

----------------------------------------------------------------------------
(* The state machine of the tool registries of two agents: one step is    *)
(* one register_tool call on one of them                                   *)

AgentIds == {"a1", "a2"}

\* the states an agent may be in when a tool is registered with it
RegistryStates == {"idle", "processing"}

\* the dict self.tools of the agent a
RegistryOf(a) == tools[agents[a].tools]

\* Agent.__init__ of the two agents, one after the other
RegistryInit ==
    /\ MainAgent_init
    /\ tasks = None
    /\ script = None
    /\ used = 0
    /\ events = <<>>
    /\ result = PyNone
    /\ rejected = None
    /\ ops = 0
    /\ op = [kind |-> "none"]
    /\ LET first == Agent_init_tools(<<>>)
           second == Agent_init_tools(first.heap)
       IN  /\ tools = second.heap
           /\ \E s1 \in RegistryStates, s2 \in RegistryStates :
                  agents = [a \in AgentIds |->
                               IF a = "a1" THEN [state |-> s1, tools |-> first.ref]
                               ELSE [state |-> s2, tools |-> second.ref]]

\* the class registered under the name of cls, "" when there is none
Replaced(registry, cls) ==
    LET held == {i \in DOMAIN registry : registry[i].key = tool_name_of(cls)}
    IN  IF held = {} THEN "" ELSE registry[CHOOSE i \in held : TRUE].cls.id

\* a.register_tool(cls)
RegistryRegister ==
    \E a \in AgentIds, cls \in ToolClasses :
        /\ tools' = [tools EXCEPT ![agents[a].tools] = register_tool(@, cls)]
        /\ op' = [kind |-> "register_tool", agent |-> a, cls |-> cls.id,
                  replaced |-> Replaced(RegistryOf(a), cls)]
        /\ UNCHANGED <<mainvars, tasks, agents, script, used, events, result,
                       rejected, ops>>

RegistryNext == RegistryRegister

RegistrySpec == RegistryInit /\ [][RegistryNext]_vars

----------------------------------------------------------------------------
(* The parallel retrieve (RetrievalAgent.handle_message_parallel)          *)

\* the keys of structured_results, in the order the dict is written in
Sources == <<"vector_search", "api_search">>

SourceSet == {Sources[i] : i \in DOMAIN Sources}

\* what doc_chat_agent.search and the HTTP request of the API search do
DocChatNotConfigured == Str(<<"DocChat agent not configured">>)

VectorOutcomes ==
    {ToolOutcome("params raise", PyNone), ToolOutcome("handler raises", PyNone),
     ToolOutcome("result", DocChatNotConfigured)}
        \cup {ToolOutcome("result", r) :
                 r \in {PyNone, Str(<<>>), Str(Ok), List(<<"document">>)}}

ApiOutcomes ==
    {ToolOutcome("params raise", PyNone), ToolOutcome("request fails", PyNone),
     ToolOutcome("result", Str(Ok))}

\* what self.llm is and what self.llm.generate(selection_prompt) gives
SelectionOutcomes ==
    {"llm_not_configured", "answer_section", "full_message",
     "falsy_selection", "no_message", "exception"}

\* RetrievalAgent.vectorsearchtool: the value returned (ret) or the
\* exception raised (pending)
vectorsearchtool(outcome) ==
    IF outcome.kind = "handler raises"
    THEN [pending |-> Some("search"), ret |-> PyNone]
    ELSE [pending |-> None, ret |-> outcome.value]

\* RetrievalAgent.apisearchtool
apisearchtool(outcome) ==
    IF outcome.kind = "request fails"
    THEN [pending |-> None, ret |-> PyNone]
    ELSE [pending |-> None, ret |-> outcome.value]

\* getattr(self, tool_class.__name__.lower())(tool)
handler_of(source, outcome) ==
    IF source = "vector_search" THEN vectorsearchtool(outcome)
    ELSE apisearchtool(outcome)

\* RetrievalAgent._async_tool_execution, the except clause: what the task
\* ends with
_async_tool_execution_except(tried) ==
    IF tried.pending # None THEN PyNone ELSE tried.ret

\* the asyncio task of a source: where it is and what it ended with
AsyncTask(pc, value) == [pc |-> pc, result |-> value]

\* RetrievalAgent._async_tool_execution up to the await of the executor
_async_tool_execution_begin(outcome) ==
    IF outcome.kind = "params raise"
    THEN AsyncTask("done", _async_tool_execution_except(
                               [pending |-> Some("params"), ret |-> PyNone]))
    ELSE AsyncTask("running", PyNone)

\* RetrievalAgent._async_tool_execution from the end of the handler on
_async_tool_execution_end(source, outcome) ==
    AsyncTask("done", _async_tool_execution_except(handler_of(source, outcome)))

\* asyncio.gather returning as soon as one of the tasks is done
gather_first_done(ts) == \E source \in SourceSet : ts[source].pc = "done"

\* asyncio.gather(vector_task, api_task, return_exceptions=True): the await
\* ends when every task is done
gather_done(ts) == \A source \in SourceSet : ts[source].pc = "done"

\* the results of the tasks in the order in which they were done
gather_results_as_completed(ts, completed) ==
    [k \in DOMAIN completed |-> ts[completed[k]].result]

\* asyncio.gather: the results in the order of its arguments
gather_results(ts, completed) ==
    <<ts["vector_search"].result, ts["api_search"].result>>

\* str(x) of a handler's value, as far as the model tells values apart
str(v) == IF v.type = "str" THEN v ELSE [type |-> "str", val |-> <<v>>]

\* RetrievalAgent._process_result
_process_result(r, source) ==
    IF r.type = "Exception"
    THEN [status |-> "error", source |-> source, data |-> str(r)]
    ELSE IF ~Bool(r)
    THEN [status |-> "empty", source |-> source, data |-> PyNone]
    ELSE [status |-> "success", source |-> source,
          data |-> IF r.type = "list" THEN r ELSE str(r)]

\* RetrievalAgent._format_results
_format_results(rec) ==
    CASE rec.status = "error" -> <<"[Error occurred: ", rec.data, "]">>
      [] rec.status = "empty" -> <<"[No results found]">>
      [] OTHER -> <<"[Found: ", str(rec.data), "]">>

\* results[key] of the dict results, kept as its items in order
Item(results, key) ==
    results[CHOOSE i \in DOMAIN results : results[i].key = key].value

\* RetrievalAgent._create_selection_prompt
_create_selection_prompt(original_query, results) ==
    [query |-> original_query,
     vector |-> _format_results(Item(results, "vector_search")),
     api |-> _format_results(Item(results, "api_search"))]

\* RetrievalAgent.handle_message_parallel from the end of the await on:
\* what it returns (answer), the dict and the prompt it built, the agent's
\* state, and the order in which the tasks were done
handle_message_parallel_end(ts, completed, selection) ==
    LET results == gather_results(ts, completed)
        structured_results ==
            <<[key |-> "vector_search",
               value |-> _process_result(results[1], "vector_search")],
              [key |-> "api_search",
               value |-> _process_result(results[2], "api_search")]>>
        selection_prompt == _create_selection_prompt("query", structured_results)
        built(answer, s) == [answer |-> answer, payload |-> Some(structured_results),
                             prompt |-> Some(selection_prompt), state |-> s,
                             completed |-> completed]
    IN  CASE selection = "exception" -> built("Error in message handling", "error")
          [] selection = "falsy_selection" ->
                built("Failed to evaluate search results.", "processing")
          [] selection = "answer_section" -> built("text after ANSWER:", "processing")
          [] selection = "full_message" -> built("full model output", "processing")
          [] OTHER -> built("No relevant information found.", "processing")

\* RetrievalAgent.__init__, and what its tools and its model will do
ParallelInit ==
    /\ MainAgent_init
    /\ tasks = None
    /\ agents = "idle"
    /\ \E v \in VectorOutcomes, a \in ApiOutcomes, s \in SelectionOutcomes :
           script = [vector_search |-> v, api_search |-> a, selection |-> s]
    /\ used = 0
    /\ op = [kind |-> "handle_message_parallel", pc |-> "none"]
    /\ events = <<>>
    /\ result = None
    /\ rejected = None
    /\ ops = 0
    /\ tools = <<>>

\* handle_message_parallel up to the await of asyncio.gather
ParallelCall ==
    /\ op.pc # "gathering"
    /\ rejected' = result
    /\ events' = <<>>
    /\ IF script.selection = "llm_not_configured"
       THEN /\ op' = [op EXCEPT !.pc = "returned"]
            /\ result' = Some([answer |-> "LLM not configured", payload |-> None,
                               prompt |-> None, state |-> agents,
                               completed |-> <<>>])
            /\ tasks' = None
            /\ UNCHANGED agents
       ELSE /\ op' = [op EXCEPT !.pc = "gathering"]
            /\ result' = None
            /\ tasks' = [source \in SourceSet |-> AsyncTask("created", PyNone)]
            /\ agents' = "processing"
    /\ UNCHANGED <<mainvars, script, used, ops, tools>>

\* the task of a source runs up to its await of the executor
ToolBegin ==
    /\ op.pc = "gathering"
    /\ \E source \in SourceSet :
           /\ tasks[source].pc = "created"
           /\ tasks' = [tasks EXCEPT
                            ![source] = _async_tool_execution_begin(script[source])]
           /\ events' = Append(events, <<tasks'[source].pc, source>>)
    /\ UNCHANGED <<mainvars, agents, script, used, op, result, rejected, ops, tools>>

\* the handler of a source ends in its thread, and its task after it
ToolEnd ==
    /\ op.pc = "gathering"
    /\ \E source \in SourceSet :
           /\ tasks[source].pc = "running"
           /\ tasks' = [tasks EXCEPT
                            ![source] = _async_tool_execution_end(source, script[source])]
           /\ events' = Append(events, <<"done", source>>)
    /\ UNCHANGED <<mainvars, agents, script, used, op, result, rejected, ops, tools>>

\* the tasks done, in the order in which they were
Completed(lg) == SelectSeq(lg, LAMBDA e : e[1] = "done")

\* the await of asyncio.gather ends and handle_message_parallel goes on to
\* its return
ParallelReturn ==
    /\ op.pc = "gathering"
    /\ gather_done(tasks)
    /\ \E r \in {handle_message_parallel_end(
                     tasks, [k \in DOMAIN Completed(events) |-> Completed(events)[k][2]],
                     script.selection)} :
           /\ result' = Some(r)
           /\ agents' = r.state
    /\ op' = [op EXCEPT !.pc = "returned"]
    /\ events' = Append(events, <<"gathered", "">>)
    /\ UNCHANGED <<mainvars, tasks, script, used, rejected, ops, tools>>

ParallelNext == ParallelCall \/ ToolBegin \/ ToolEnd \/ ParallelReturn

ParallelSpec == ParallelInit /\ [][ParallelNext]_vars

----------------------------------------------------------------------------
(* The non-parallel retrieve (RetrievalAgent.llm_response)                 *)

\* the ways of one _try_get_answer call: llm.generate raises, gives a falsy
\* result or one without a function call; the arguments of the function
\* call do not parse or construct; the request of the API search fails;
\* the API search answers
AttemptOutcomes ==
    {"generate raises", "falsy result", "no function_call", "bad arguments",
     "request fails", "answer", "no relevant answer"}

Answer == Str(<<"answer">>)

NoRelevantAnswer == Str(<<"No relevant documents">>)

\* the texts llm_response returns without an answer of a tool
LLMNotConfigured == Str(<<"LLM not configured.">>)

CouldntFindRelevant == Str(<<"couldn't find relevant information">>)

ErrorGettingResponse == Str(<<"Error getting response">>)

\* the message of the second attempt
retry_message(message) == <<"The previous tool didn't provide useful results for",
                            message, "Please try the other available tool">>

\* RetrievalAgent._try_get_answer: d is the llm_response call so far, its
\* attempts (log), the value just returned (ret) and the exception on its
\* way up (pending)
_try_get_answer(d, message, outcome) ==
    LET ret == CASE outcome = "answer" -> Answer
                 [] outcome = "no relevant answer" -> NoRelevantAnswer
                 [] OTHER -> PyNone
        tried == [d EXCEPT !.log = Append(@, [message |-> message,
                                              outcome |-> outcome,
                                              returned |-> ret])]
    IN  IF outcome = "generate raises"
        THEN [tried EXCEPT !.pending = Some("generate")]
        ELSE [tried EXCEPT !.ret = ret]

\* the k-th attempt of a call meets what the (k - Len(outcomes))-th met
NextAttempt(d, outcomes) == outcomes[(Len(d.log) % Len(outcomes)) + 1]

\* RetrievalAgent.llm_response giving up after the first attempt
llm_response_retry_absent(first, message, outcomes) ==
    [first EXCEPT !.ret = CouldntFindRelevant]

\* RetrievalAgent.llm_response from the failed first attempt on
llm_response_retry(first, message, outcomes) ==
    LET alternative == _try_get_answer(first, retry_message(message),
                                       NextAttempt(first, outcomes))
    IN  IF alternative.pending # None \/ Bool(alternative.ret) THEN alternative
        ELSE [alternative EXCEPT !.ret = CouldntFindRelevant]

\* RetrievalAgent.llm_response, the try block
llm_response_body(d, llm, message, outcomes) ==
    LET first == _try_get_answer(d, message, NextAttempt(d, outcomes))
    IN  IF ~llm THEN [d EXCEPT !.ret = LLMNotConfigured]
        ELSE IF first.pending # None \/ Bool(first.ret) THEN first
        ELSE llm_response_retry(first, message, outcomes)

\* RetrievalAgent.llm_response, the except clause
llm_response_except(tried) ==
    IF tried.pending # None
    THEN [tried EXCEPT !.pending = None, !.ret = ErrorGettingResponse]
    ELSE tried

\* RetrievalAgent.llm_response: llm tells whether self.llm is set
RetrievalAgent_llm_response(llm, message, outcomes) ==
    LET d == [log |-> <<>>, ret |-> PyNone, pending |-> None]
    IN  llm_response_except(llm_response_body(d, llm, message, outcomes))

RetrievalMessages == {"question one", "question two"}

\* RetrievalAgent.__init__, and what the attempts of a call will meet
RetryInit ==
    /\ MainAgent_init
    /\ tasks = None
    /\ agents \in [llm : BOOLEAN]
    /\ script \in [1..ScriptLen -> AttemptOutcomes]
    /\ used = 0
    /\ op = [kind |-> "none"]
    /\ events = <<>>
    /\ result = PyNone
    /\ rejected = None
    /\ ops = 0
    /\ tools = <<>>

\* agent.llm_response(message)
LlmResponse ==
    \E message \in RetrievalMessages :
        \E d \in {RetrievalAgent_llm_response(agents.llm, message, script)} :
            /\ op' = [kind |-> "llm_response", message |-> message]
            /\ events' = d.log
            /\ result' = Outcome(d)
            /\ UNCHANGED <<mainvars, tasks, agents, script, used, rejected,
                           ops, tools>>

RetryNext == LlmResponse

RetrySpec == RetryInit /\ [][RetryNext]_vars

----------------------------------------------------------------------------
(* A ProbingAgent on its own: handle_message calls, one after the other    *)

ProbeMessages == {"answer a", "answer b"}

\* the fields of a ProbingAgent
ProbingFields(s) ==
    [collected_responses |-> s.collected_responses,
     question_counter |-> s.question_counter,
     current_question |-> s.current_question]

\* the working state of a call on the agent a
ProbingCall(a) ==
    [collected_responses |-> a.collected_responses,
     question_counter |-> a.question_counter,
     current_question |-> a.current_question,
     pending |-> None, exc |-> None, ret |-> None, invoked |-> <<>>]

\* what a handle_message call gives its caller
Response(s) ==
    IF s.pending # None THEN [type |-> "raised", val |-> s.pending]
    ELSE [type |-> s.ret[1], val |-> s.ret[2]]

NoCallYet == [type |-> "none", val |-> None]

\* ProbingAgent.__init__, and what the language model will answer: the
\* k-th question prompt gets what the (k - ScriptLen)-th got
ProbeInit ==
    /\ MainAgent_init
    /\ tasks = None
    /\ agents = ProbingFields(ProbingAgent(ProbingCall([collected_responses |-> <<>>, question_counter |-> 0, current_question |-> None]), "ok"))
    /\ script \in [question : [1..ScriptLen -> QuestionResults], summary : SummaryResults]
    /\ used = 0
    /\ op = [kind |-> "none"]
    /\ events = <<>>
    /\ result = NoCallYet
    /\ rejected = NoCallYet
    /\ ops = 0
    /\ tools = <<>>

\* agent.handle_message(message); rejected keeps what the agent returned
\* last before this call
ProbeHandleMessage ==
    /\ ops < MaxCalls
    /\ \E message \in ProbeMessages :
        \E s \in {ProbingAgent_handle_message(ProbingCall(agents), message, script.question[(used % ScriptLen) + 1], script.summary)} :
            /\ agents' = ProbingFields(s)
            /\ op' = [kind |-> "handle_message", message |-> message,
                      before |-> agents]
            /\ events' = s.invoked
            /\ rejected' = IF result.type = "raised" THEN rejected ELSE result
            /\ result' = Response(s)
            /\ used' = IF s.invoked[Len(s.invoked)][2] = "summary" THEN used
                       ELSE used + 1
            /\ ops' = ops + 1
            /\ UNCHANGED <<mainvars, tasks, script, tools>>

ProbeNext == ProbeHandleMessage

ProbeSpec == ProbeInit /\ [][ProbeNext]_vars

----------------------------------------------------------------------------
(* The probing turns of a dialogue, with the state of the notification     *)
(* sink: the store and the Slack channel work, or one of them fails        *)

\* a new orchestrator, as its first call finds it
Fresh ==
    [state |-> "idle", current_query |-> None, current_answer |-> None,
     probe_count |-> 0, feedback_type |-> None, probe_results |-> None,
     collected_responses |-> <<>>, question_counter |-> 0,
     current_question |-> None, retrieval_state |-> "idle",
     transitions |-> <<>>, invoked |-> <<>>, exc |-> None, notified |-> None,
     classified |-> None, pending |-> None, ret |-> None]

\* the agents as the next call finds them
Again(r) ==
    [r EXCEPT !.transitions = <<>>, !.invoked = <<>>, !.exc = None,
              !.notified = None, !.classified = None, !.pending = None,
              !.ret = None]

needs_retrieval ==
    <<"n", "e", "e", "d", "s", "_", "r", "e", "t", "r", "i", "e", "v", "a", "l">>

NotHelpful == <<"N", "o", "t", " ", "H", "e", "l", "p", "f", "u", "l", " ">>

\* the first call of a dialogue: a query answered by the retrieval agent
Answered1(query) ==
    handle_message(Fresh, query, Env(LLMResult("dict", Some(needs_retrieval)), Unused, "answer_section", "ok", Unused, Unused, "ok"))

\* the second call: the user is not satisfied and gets the first question
Asked(query, question) ==
    handle_message(Again(Answered1(query)), NotHelpful, Env(Unused, Unused, "answer_section", "ok", question, Unused, "ok"))

\* a dialogue that has reached PROBING
NotifyInit ==
    /\ \E query \in Messages, question \in QuestionResults :
         LET r == Asked(query, question)
         IN  /\ r.state = "probing"
             /\ state = r.state
             /\ current_query = r.current_query
             /\ current_answer = r.current_answer
             /\ probe_count = r.probe_count
             /\ feedback_type = r.feedback_type
             /\ probe_results = r.probe_results
             /\ collected_responses = r.collected_responses
             /\ question_counter = r.question_counter
             /\ current_question = r.current_question
             /\ retrieval_state = r.retrieval_state
             /\ msg = Some(NotHelpful)
             /\ start_state = "waiting_feedback"
             /\ transitions = r.transitions
             /\ invoked = r.invoked
             /\ response = r.ret
             /\ exc = r.exc
             /\ propagated = r.pending
             /\ notified = r.notified
             /\ classified = r.classified
    /\ calls = 2
    /\ tasks = None
    /\ agents = None
    /\ script = None
    /\ used = 0
    /\ op = [kind |-> "none"]
    /\ events = <<>>
    /\ result = None
    /\ rejected = None
    /\ ops = 0
    /\ tools = <<>>

\* a message arrives in PROBING while the notification sink is as sink says
SinkProbe ==
    /\ calls < MaxCalls
    /\ state = "probing"
    /\ \E m \in Messages :
         LET finished ==
                 question_counter
                     + (IF Truthy(current_question) THEN 1 ELSE 0)
                     >= MaxQuestions
             questions == IF finished THEN {Unused} ELSE QuestionResults
             summaries == IF finished THEN SummaryResults ELSE {Unused}
             sinks == IF finished THEN NotificationOutcomes ELSE {"ok"}
         IN  \E q \in questions, sm \in summaries, sink \in sinks :
                /\ Leave(handle_message(Entry, m, Env(Unused, Unused, "answer_section", "ok", q, sm, sink)), m)
                /\ op' = [kind |-> "handle_message", sink |-> sink]
                /\ UNCHANGED <<tasks, agents, script, used, events, result,
                               rejected, ops, tools>>

NotifyNext == SinkProbe

NotifySpec == NotifyInit /\ [][NotifyNext]_vars

----------------------------------------------------------------------------
(* The contexts of two agents.  The lists of the program are cells of a    *)
(* heap; a field that holds a list holds the index of its cell.            *)

Capabilities == {"search", "chat"}

\* AgentConfig.capabilities as a configuration declares it
DeclaredCapabilities == {<<>>, <<"search">>, <<"search", "search">>}

\* Agent.__init__: AgentContext() makes its own lists, and then
\* context.capabilities is assigned the list of the configuration, whose
\* cell is config
Agent_init_context(heap, config) ==
    [heap |-> heap \o <<<<>>, <<>>, <<>>>>,
     context |-> [tool_history |-> Len(heap) + 1,
                  conversation_history |-> Len(heap) + 2,
                  capabilities |-> config]]

\* Agent.add_capability, on the list context.capabilities
add_capability(capabilities, capability) ==
    IF \E i \in DOMAIN capabilities : capabilities[i] = capability
    THEN capabilities
    ELSE Append(capabilities, capability)

\* Agent.llm_response, what it does to context.conversation_history
llm_response_history(history, message, answered) ==
    IF answered
    THEN history \o <<<<"user", message>>, <<"assistant", "response">>>>
    ELSE history

\* the context of the agent a with the lists its fields hold, on the heap h
ContextOf(h, a) ==
    [tool_history |-> h[agents[a].tool_history],
     conversation_history |-> h[agents[a].conversation_history],
     capabilities |-> h[agents[a].capabilities]]

\* two configurations are constructed, then the agent a1 from the first and
\* the agent a2 from the first or from the second
ContextInit ==
    /\ MainAgent_init
    /\ tasks = None
    /\ used = 0
    /\ events = <<>>
    /\ result = PyNone
    /\ rejected = None
    /\ ops = 0
    /\ op = [kind |-> "none"]
    /\ \E c1 \in DeclaredCapabilities, c2 \in DeclaredCapabilities, config \in 1..2 :
         LET first == Agent_init_context(<<c1, c2>>, 1)
             second == Agent_init_context(first.heap, config)
         IN  /\ tools = second.heap
             /\ agents = [a \in AgentIds |->
                             IF a = "a1" THEN first.context ELSE second.context]
             /\ script = [a \in AgentIds |-> IF a = "a1" THEN c1
                                             ELSE <<c1, c2>>[config]]

\* agent.add_capability(capability)
AddCapability ==
    /\ ops < MaxOps
    /\ \E a \in AgentIds, capability \in Capabilities :
        /\ tools' = [tools EXCEPT ![agents[a].capabilities] = add_capability(@, capability)]
        /\ op' = [kind |-> "add_capability", agent |-> a,
                  capability |-> capability, before |-> tools]
        /\ ops' = ops + 1
        /\ UNCHANGED <<mainvars, tasks, agents, script, used, events, result,
                       rejected>>

\* agent.llm_response(message)
ContextLlmResponse ==
    /\ ops < MaxOps
    /\ \E a \in AgentIds, answered \in BOOLEAN :
        /\ tools' = [tools EXCEPT ![agents[a].conversation_history] = llm_response_history(@, "question", answered)]
        /\ op' = [kind |-> "llm_response", agent |-> a, answered |-> answered,
                  before |-> tools]
        /\ ops' = ops + 1
        /\ UNCHANGED <<mainvars, tasks, agents, script, used, events, result,
                       rejected>>

ContextNext == AddCapability \/ ContextLlmResponse

ContextSpec == ContextInit /\ [][ContextNext]_vars

----------------------------------------------------------------------------
(* The parallel retrieve: from the result of the selection prompt to the   *)
(* answer.  A text is a sequence of words; the headings are words.         *)

ANSWER == "ANSWER:"

Headings == {"EVALUATION:", "SELECTED SOURCE(S):", ANSWER}

Words == Headings \cup {"text", " "}

RECURSIVE TextsUpTo(_)
TextsUpTo(n) ==
    IF n = 0 THEN {<<>>}
    ELSE LET shorter == TextsUpTo(n - 1)
         IN  shorter \cup {Append(s, w) : s \in shorter, w \in Words}

\* what self.llm.generate(selection_prompt) gives: a dict with a text or
\* None as its "message", a dict without "message", an empty dict or None,
\* or an exception
SelectionResults ==
    {LLMResult("dict", Some(s)) : s \in TextsUpTo(MaxOutput)}
        \cup {LLMResult("dict", None), LLMResult("nokey", None),
              LLMResult("none", None), LLMResult("raise", None)}

\* str.split(sep) for a separator of one word
RECURSIVE split(_, _)
split(s, sep) ==
    IF \A i \in DOMAIN s : s[i] # sep THEN <<s>>
    ELSE LET k == CHOOSE i \in DOMAIN s :
                      s[i] = sep /\ \A j \in 1..(i - 1) : s[j] # sep
         IN  <<SubSeq(s, 1, k - 1)>> \o split(SubSeq(s, k + 1, Len(s)), sep)

\* RetrievalAgent.handle_message_parallel from selection_result on: the
\* value returned and the state of the retrieval agent
extract_answer(selection_result) ==
    CASE selection_result.kind = "raise" ->
            [ret |-> Str(<<"Error in message handling">>), state |-> "error"]
      [] selection_result.kind = "none" ->
            [ret |-> Str(<<"Failed to evaluate search results.">>),
             state |-> "processing"]
      [] selection_result.kind = "nokey" ->
            [ret |-> Str(<<"No relevant information found.">>),
             state |-> "processing"]
      [] selection_result.message = None ->
            [ret |-> Str(<<"Error in message handling">>), state |-> "error"]
      [] OTHER ->
            LET message == selection_result.message[1]
            IN  IF \E i \in DOMAIN message : message[i] = ANSWER
                THEN [ret |-> Str(strip(split(message, ANSWER)[2])),
                      state |-> "processing"]
                ELSE [ret |-> Str(message), state |-> "processing"]

\* the retrieval agent has gathered the results and asks the selection
SelectionInit ==
    /\ MainAgent_init
    /\ tasks = None
    /\ agents = "processing"
    /\ script \in SelectionResults
    /\ used = 0
    /\ op = [kind |-> "none"]
    /\ events = <<>>
    /\ result = PyNone
    /\ rejected = None
    /\ ops = 0
    /\ tools = <<>>

\* handle_message_parallel returns
SelectAnswer ==
    /\ op.kind = "none"
    /\ \E r \in {extract_answer(script)} :
        /\ result' = r.ret
        /\ agents' = r.state
    /\ op' = [kind |-> "handle_message_parallel"]
    /\ UNCHANGED <<mainvars, tasks, script, used, events, rejected, ops, tools>>

SelectionNext == SelectAnswer

SelectionSpec == SelectionInit /\ [][SelectionNext]_vars

----------------------------------------------------------------------------
(* The orchestrator that drives its agents through Tasks                   *)
(* (src/shared/infrastructure/agent/main_agent.py).  Its probing agent is  *)
(* the one made in __init__; each probing call runs a new Task on it.      *)

\* MainAgentConfig.max_probe_attempts, the max_steps of a probing task
MaxProbeAttempts == 3

\* a Python value with who produced it: the user, the orchestrator or the
\* probing agent
Value(from, type, val) == [from |-> from, type |-> type, val |-> val]

NoneValue == Value("agent", "NoneType", None)

\* Python truthiness of a value: a text, a dict of the program, or None
IsTrue(v) ==
    CASE v.type = "NoneType" -> FALSE
      [] v.type = "str" -> v.val # ""
      [] OTHER -> TRUE

\* what ProbingAgent.handle_message returned, as a value
Returned(s) ==
    IF s.ret[1] = "dict" THEN Value("agent", "dict", s.ret[2])
    ELSE IF s.ret[2] = None THEN NoneValue
    ELSE Value("agent", "str", s.ret[2][1])

\* Task.step on a task of the probing agent, after the handler call s: the
\* response becomes the pending message; an exception puts the agent in
\* ERROR and the step returns None
probing_task_step_end(r, s) ==
    LET asked == s.invoked[Len(s.invoked)][2] # "summary"
        handed == [r EXCEPT !.log = Append(@, r.pending_message),
                            !.n = IF asked THEN @ + 1 ELSE @]
        agent == [state |-> r.agent.state,
                  collected_responses |-> s.collected_responses,
                  question_counter |-> s.question_counter,
                  current_question |-> s.current_question]
    IN  IF s.pending # None
        THEN [handed EXCEPT !.agent = [agent EXCEPT !.state = "error"],
                            !.response = NoneValue]
        ELSE [handed EXCEPT !.agent = agent,
                            !.pending_message = Returned(s),
                            !.response = Returned(s)]

\* Task.step on a task of the probing agent (no sub-tasks, not single
\* round).  r holds the agent, the task's pending_message and step_count,
\* the response of the step, the messages handed to the agent so far (log)
\* and the number of question prompts so far (n).
probing_task_step(r, outcomes) ==
    IF r.pending_message.type = "NoneType"
    THEN [r EXCEPT !.response = NoneValue]
    ELSE probing_task_step_end(r, ProbingAgent_handle_message(ProbingCall(r.agent), r.pending_message, outcomes.question[(r.n % ScriptLen) + 1], outcomes.summary))

\* Task.run, the loop: stepped is r after one more step
RECURSIVE probing_task_loop(_, _)
RECURSIVE probing_task_loop_on(_, _)
probing_task_loop_on(stepped, outcomes) ==
    IF stepped.response.type = "NoneType" THEN stepped
    ELSE probing_task_loop([stepped EXCEPT !.step_count = @ + 1], outcomes)

\* Task.run, the loop
probing_task_loop(r, outcomes) ==
    IF r.agent.state \in {"done", "error"} \/ r.step_count >= MaxProbeAttempts
    THEN r
    ELSE probing_task_loop_on(probing_task_step(r, outcomes), outcomes)

\* Task.run, its return: r is the task when the loop has ended
probing_task_run_end(o, r) ==
    [o EXCEPT !.probing_agent = r.agent, !.log = r.log, !.n = r.n,
              !.ret = IF IsTrue(r.response) THEN r.response
                      ELSE Value("task", "str", "Task completed without response")]

\* _create_probe_task().run(initial_message) on the orchestrator o: the
\* task is new, its agent is o.probing_agent
probing_task_run(o, initial_message, outcomes) ==
    probing_task_run_end(o, probing_task_loop([agent |-> o.probing_agent, pending_message |-> initial_message, step_count |-> 0, response |-> NoneValue, log |-> o.log, n |-> o.n], outcomes))

\* MainAgent._reset
TaskDriven_reset(o) ==
    [o EXCEPT !.state = "idle", !.current_query = None, !.current_answer = None]

\* how _handle_new_query goes: the query is general chat, the retrieval
\* task returns its text, or the classification raises
NewQueryOutcomes == {"general_chat", "answer", "raises"}

\* MainAgent._handle_new_query with its except clause and that of
\* handle_message
TaskDriven_handle_new_query(o, query, outcome) ==
    LET o1 == [o EXCEPT !.current_query = Some(query)]
    IN  CASE outcome = "general_chat" ->
                [o1 EXCEPT !.ret = Value("agent", "str", "chat")]
          [] outcome = "answer" ->
                [o1 EXCEPT !.current_answer = Some("answer"),
                           !.state = "waiting_feedback",
                           !.ret = Value("agent", "str", "answer, satisfied?")]
          [] OTHER ->
                [o1 EXCEPT !.state = "error",
                           !.ret = Value("orchestrator", "str", "Error")]

\* MainAgent._handle_feedback
TaskDriven_handle_feedback(o, message, outcomes) ==
    LET feedback == strip(lower(message))
        probe_args == Value("orchestrator", "dict",
                            [query |-> o.current_query,
                             previous_answer |-> o.current_answer])
        ran == probing_task_run([o EXCEPT !.feedback_type = Some("unsatisfied")],
                                probe_args, outcomes)
    IN  IF feedback \in FEEDBACK_SATISFIED
        THEN [TaskDriven_reset([o EXCEPT !.state = "done"])
                 EXCEPT !.ret = Value("orchestrator", "str", "Great!")]
        ELSE IF feedback \in FEEDBACK_UNSATISFIED
        THEN [ran EXCEPT !.state = "probing"]
        ELSE [o EXCEPT !.ret = Value("orchestrator", "str",
                                     "Please indicate if you're satisfied")]

\* MainAgent.handle_message in PROBING, after the probing task has run;
\* notification tells whether NotificationAgent(config) can be constructed
TaskDriven_handle_probing_end(ran, outcomes) ==
    IF ran.ret.type # "dict" THEN ran
    ELSE IF outcomes.notification = "ctor_raises"
    THEN [ran EXCEPT !.state = "error",
                     !.ret = Value("orchestrator", "str",
                                   "Error during feedback session")]
    ELSE [TaskDriven_reset([ran EXCEPT !.state = "done"])
             EXCEPT !.ret = Value("orchestrator", "str",
                                  "Thank you for your feedback")]

\* MainAgent.handle_message in PROBING
TaskDriven_handle_probing(o, message, outcomes) ==
    TaskDriven_handle_probing_end(probing_task_run(o, Value("user", "str", message), outcomes), outcomes)

\* MainAgent.handle_message
TaskDriven_handle_message(o, message, outcomes, new_query) ==
    CASE o.state = "idle" -> TaskDriven_handle_new_query(o, message, new_query)
      [] o.state = "waiting_feedback" ->
            TaskDriven_handle_feedback(o, message, outcomes)
      [] o.state = "probing" -> TaskDriven_handle_probing(o, message, outcomes)
      [] o.state = "error" ->
            [o EXCEPT !.state = "idle",
                      !.ret = Value("orchestrator", "str", "Error occurred.")]
      [] OTHER ->
            [o EXCEPT !.state = "error",
                      !.ret = Value("orchestrator", "str", "System error.")]

\* MainAgent.__init__, and what the language model will answer the probing
\* agent's prompts with
TaskDrivenInit ==
    /\ MainAgent_init
    /\ tasks = None
    /\ agents = [state |-> "idle", current_query |-> None,
                 current_answer |-> None, feedback_type |-> None,
                 probing_agent |-> [state |-> "idle",
                                    collected_responses |-> <<>>,
                                    question_counter |-> 0,
                                    current_question |-> None]]
    /\ script \in [question : [1..ScriptLen -> QuestionResults],
                   summary : SummaryResults,
                   notification : {"ok", "ctor_raises"}]
    /\ used = 0
    /\ op = [kind |-> "none"]
    /\ events = <<>>
    /\ result = NoneValue
    /\ rejected = None
    /\ ops = 0
    /\ tools = <<>>

\* orchestrator.handle_message(message)
TaskDrivenHandleMessage ==
    /\ ops < MaxCalls
    /\ \E message \in Messages :
        \E new_query \in (IF agents.state = "idle" THEN NewQueryOutcomes ELSE {"answer"}) :
          LET entry == [state |-> agents.state,
                        current_query |-> agents.current_query,
                        current_answer |-> agents.current_answer,
                        feedback_type |-> agents.feedback_type,
                        probing_agent |-> agents.probing_agent,
                        log |-> <<>>, n |-> used, ret |-> NoneValue]
          IN  \E o \in {TaskDriven_handle_message(entry, message, script, new_query)} :
                /\ agents' = [state |-> o.state,
                              current_query |-> o.current_query,
                              current_answer |-> o.current_answer,
                              feedback_type |-> o.feedback_type,
                              probing_agent |-> o.probing_agent]
                /\ used' = o.n
                /\ events' = o.log
                /\ result' = o.ret
                /\ op' = [kind |-> "handle_message", start |-> agents.state,
                          message |-> message,
                          before |-> agents.probing_agent]
                /\ ops' = ops + 1
                /\ UNCHANGED <<mainvars, tasks, script, rejected, tools>>

TaskDrivenNext == TaskDrivenHandleMessage

TaskDrivenSpec == TaskDrivenInit /\ [][TaskDrivenNext]_vars

----------------------------------------------------------------------------
(* What a call did, read from the record it leaves *)

Did(log, callee, outcome) == \E i \in DOMAIN log : log[i] = <<callee, outcome>>

Called(log, callee) == \E i \in DOMAIN log : log[i][1] = callee

Passed(trace, st) == \E i \in DOMAIN trace : trace[i] = st

Normalised(m) == strip(lower(m))

Unrecognised(m) ==
    Normalised(m) \notin FEEDBACK_SATISFIED \cup FEEDBACK_UNSATISFIED

\* m is no vocabulary word but contains one or is part of one
PartialMatch(m) ==
    /\ Unrecognised(m)
    /\ \E w \in FEEDBACK_SATISFIED \cup FEEDBACK_UNSATISFIED :
          Contains(w, Normalised(m)) \/ Contains(Normalised(m), w)

Cleared == current_query = None /\ current_answer = None /\ probe_count = 0

----------------------------------------------------------------------------
(* The orchestrator's claims *)

\* C1: whenever an exception is raised inside the handler a call dispatched
\* to (from IDLE, WAITING_FEEDBACK or PROBING; in classification, retrieval,
\* feedback handling, probing or notification), the call ends with the
\* orchestrator in ERROR; and a call made in ERROR ends in IDLE.
C1_ExceptionEndsInErrorThenIdle ==
    /\ [](exc # None => state = "error")
    /\ [][state = "error" => state' = "idle"]_vars

\* a call that started in PROBING, raised and left the orchestrator in ERROR
C1_Witness ==
    start_state = "probing" /\ exc # None /\ state = "error"

\* C2: when a call in PROBING gets a summary from the probing agent, it
\* passes through NOTIFYING, hands {feedback_type, original_query,
\* probe_summary} to the notification agent, passes through DONE and ends in
\* IDLE with the context cleared.
C2_SummaryIsNotifiedAndContextReset ==
    (start_state = "probing" /\ Did(invoked, "probing_agent", "summary")) =>
        /\ transitions = <<"notifying", "done", "idle">>
        /\ notified # None
        /\ DOMAIN notified[1] =
               {"feedback_type", "original_query", "probe_summary"}
        /\ state = "idle"
        /\ Cleared

\* C3: in WAITING_FEEDBACK a message that is in neither vocabulary after
\* lower-casing and trimming makes no transition, leaves current_query and
\* current_answer as they were, invokes no collaborator and gets the
\* re-prompt; a message that only contains, or is part of, a vocabulary word
\* is such a message and leaves the state WAITING_FEEDBACK.
C3_UnrecognisedFeedbackChangesNothing ==
    [][/\ (state = "waiting_feedback" /\ Unrecognised(msg'[1])) =>
            /\ state' = "waiting_feedback"
            /\ transitions' = <<>>
            /\ current_query' = current_query
            /\ current_answer' = current_answer
            /\ invoked' = <<>>
            /\ response' = Text("Please indicate if you're satisfied", None)
       /\ (state = "waiting_feedback" /\ PartialMatch(msg'[1])) =>
            state' = state]_vars

\* feedback "nope", which contains "no", was re-prompted
C3_Witness ==
    /\ start_state = "waiting_feedback"
    /\ msg = Some(<<"n", "o", "p", "e">>)
    /\ state = "waiting_feedback"
    /\ response.kind = "Please indicate if you're satisfied"

\* C4: in WAITING_FEEDBACK a message of the satisfied vocabulary takes the
\* orchestrator to DONE and then, in the same call, to IDLE with
\* current_query and current_answer unset and probe_count 0; neither the
\* probing agent nor the notification agent is invoked.
C4_SatisfiedFeedbackResets ==
    (/\ start_state = "waiting_feedback"
     /\ msg # None
     /\ Normalised(msg[1]) \in FEEDBACK_SATISFIED) =>
        /\ transitions = <<"done", "idle">>
        /\ state = "idle"
        /\ Cleared
        /\ ~Called(invoked, "probing_agent")
        /\ ~Called(invoked, "notification_agent")
        /\ notified = None

\* feedback " Yes\n" was accepted as satisfied
C4_Witness ==
    /\ start_state = "waiting_feedback"
    /\ msg = Some(<<" ", "Y", "e", "s", "\n">>)
    /\ transitions = <<"done", "idle">>
    /\ response.kind = "Great!"

\* C5: in WAITING_FEEDBACK a message of the unsatisfied vocabulary, when
\* neither the construction of the probing agent nor its question
\* generation raises, takes the orchestrator to PROBING, and the call
\* returns the question the fresh probing agent generated and now holds as
\* outstanding: not a summary, and with nothing recorded as an answer;
\* current_query and current_answer are set and unchanged.
C5_UnsatisfiedFeedbackStartsProbing ==
    [][(/\ state = "waiting_feedback"
        /\ Normalised(msg'[1]) \in FEEDBACK_UNSATISFIED
        /\ exc' = None) =>
            /\ state' = "probing"
            /\ transitions' = <<"probing">>
            /\ response'.kind = "question"
            /\ response'.val = current_question'
            /\ collected_responses' = <<>>
            /\ question_counter' = 0
            /\ current_query # None
            /\ current_answer # None
            /\ current_query' = current_query
            /\ current_answer' = current_answer]_vars

\* feedback "Not Helpful " opened a probing session with the question Q1
C5_Witness ==
    /\ start_state = "waiting_feedback"
    /\ msg = Some(<<"N", "o", "t", " ", "H", "e", "l", "p", "f", "u", "l", " ">>)
    /\ state = "probing"
    /\ response = Text("question", Some("Q1"))
    /\ current_question = Some("Q1")
    /\ collected_responses = <<>>

\* C6: in IDLE, when the language model's classification text does not
\* contain "general_chat", the call enters RETRIEVING and invokes the
\* retrieval agent; when that returns a text, the text is stored as
\* current_answer and the call ends in WAITING_FEEDBACK; and no call enters
\* WAITING_FEEDBACK without having entered RETRIEVING before.
C6_NeedsRetrievalGoesThroughRetrieving ==
    /\ (/\ start_state = "idle"
        /\ classified # None
        /\ ~Contains(general_chat, classified[1])) =>
            /\ Len(transitions) >= 1
            /\ transitions[1] = "retrieving"
            /\ Called(invoked, "retrieval_agent")
            /\ ~Called(invoked, "_handle_general_chat")
            /\ ~Did(invoked, "retrieval_agent", "run_raises") =>
                   /\ transitions = <<"retrieving", "waiting_feedback">>
                   /\ state = "waiting_feedback"
                   /\ current_answer # None
                   /\ response = Text("answer, satisfied?", current_answer)
    /\ \A i \in DOMAIN transitions :
          transitions[i] = "waiting_feedback" =>
              \E j \in 1..(i - 1) : transitions[j] = "retrieving"

\* the label "General_Chat" sent the query to retrieval, which answered
C6_Witness ==
    /\ start_state = "idle"
    /\ classified =
           Some(<<"G", "e", "n", "e", "r", "a", "l", "_", "C", "h", "a", "t">>)
    /\ Did(invoked, "retrieval_agent", "answer_section")
    /\ state = "waiting_feedback"
    /\ current_answer = Some("text after ANSWER:")

\* C7: when retrieval fails inside the retrieval agent's parallel handler
\* (which puts the retrieval agent in its own ERROR state), the
\* orchestrator ends the call in ERROR and does not store the failure text
\* as current_answer.
C7_RetrievalFailureEndsInError ==
    (/\ start_state = "idle"
     /\ Did(invoked, "retrieval_agent", "exception")
     /\ retrieval_state = "error") =>
        /\ state = "error"
        /\ current_answer # Some("Error in message handling: ..")

\* C8: in IDLE, when the classification text contains "general_chat" and the
\* chat answer is obtained without an exception, the call makes no
\* transition (it enters neither RETRIEVING nor WAITING_FEEDBACK), does
\* not invoke the retrieval agent, ends in IDLE and returns the language
\* model's message; current_answer is not assigned, so it remains unset.
C8_GeneralChatIsAnsweredDirectly ==
    [][(/\ state = "idle"
        /\ classified' # None
        /\ Contains(general_chat, classified'[1])
        /\ exc' = None) =>
            /\ transitions' = <<>>
            /\ ~Called(invoked', "retrieval_agent")
            /\ retrieval_state' = retrieval_state
            /\ state' = "idle"
            /\ response'.kind = "chat"
            /\ current_answer' = current_answer
            /\ current_answer = None => current_answer' = None]_vars

\* the label "ok: general_chat." got the query a direct answer
C8_Witness ==
    /\ start_state = "idle"
    /\ classified =
           Some(<<"o", "k", ":", " ", "g", "e", "n", "e", "r", "a", "l", "_",
                  "c", "h", "a", "t", ".">>)
    /\ Did(invoked, "_handle_general_chat", "dict")
    /\ response = Text("chat", Some("chat reply"))
    /\ state = "idle"
    /\ current_answer = None

\* C9: a message received in ERROR is consumed by the self-heal step alone:
\* the only transition is to IDLE, the fixed apology is returned, and
\* neither classification, retrieval, feedback handling, probing nor
\* notification is invoked.
C9_ErrorIsHealedWithoutRetry ==
    (start_state = "error" /\ msg # None) =>
        /\ transitions = <<"idle">>
        /\ state = "idle"
        /\ response =
               Text("Error occurred. Please try your question again.", None)
        /\ invoked = <<>>
        /\ classified = None
        /\ exc = None
        /\ notified = None

\* a message arrived in ERROR and got the apology
C9_Witness ==
    /\ start_state = "error"
    /\ msg # None
    /\ state = "idle"
    /\ response.kind = "Error occurred. Please try your question again."

\* C10: whenever a call ends in IDLE, current_query and current_answer are
\* unset and probe_count is 0.
C10_IdleMeansContextCleared ==
    (msg # None /\ state = "idle") => Cleared

\* C11: no MainAgent.handle_message call lets an exception through to its
\* caller: whatever the state it starts in and whichever collaborator fails
\* (classification, chat, retrieval, the probing agent's construction or
\* question, the transition out of PROBING), the call returns a value, and
\* after an exception that value is an error string.
C11_HandleMessageNeverPropagates ==
    /\ propagated = None
    /\ response \in [kind : STRING, val : {None} \cup Seq(STRING)]
    /\ exc # None =>
           /\ response.kind \in {"Error", "Failed to get answer"}
           /\ response.val = exc

\* the retrieval agent's handle_message raised and the call returned the
\* error string of _handle_new_query
C11_Witness ==
    /\ start_state = "idle"
    /\ Did(invoked, "retrieval_agent", "run_raises")
    /\ propagated = None
    /\ response = Text("Failed to get answer", Some("RuntimeError"))

----------------------------------------------------------------------------
(* What an operation on a task did, read from its events *)

Terminal == {"done", "error"}

IsRun(i) == events[i].ev = "run"

\* the event that ends the run() begun at event i
EndOf(i) ==
    CHOOSE j \in (i + 1)..Len(events) :
        /\ events[j].ev = "run returned"
        /\ events[j].task = events[i].task
        /\ \A k \in (i + 1)..(j - 1) :
              ~(events[k].ev = "run returned" /\ events[k].task = events[i].task)

\* the step() invocations of the run() begun at event i
StepsIn(i) ==
    {k \in i..EndOf(i) : events[k].ev = "step" /\ events[k].task = events[i].task}

\* event k happens inside a run() of its own task
InRun(k) ==
    \E i \in 1..(k - 1) :
        IsRun(i) /\ events[i].task = events[k].task /\ EndOf(i) > k

\* event k is a call of the handler of its task's agent
IsDelivery(k) == events[k].ev \in {"handled", "raised"}

\* the handler calls of the run() begun at event i that deliver the pending
\* message of a step, not a sub-task's response
DeliveriesIn(i) ==
    {k \in i..EndOf(i) :
        /\ IsDelivery(k)
        /\ events[k].task = events[i].task
        /\ events[k - 1].ev = "step"}

\* the parent of a sub-task
ParentOf(c) ==
    CHOOSE p \in Tasks : \E i \in DOMAIN tasks[p].sub_tasks : tasks[p].sub_tasks[i] = c

IsSubTask(c) ==
    \E p \in Tasks : \E i \in DOMAIN tasks[p].sub_tasks : tasks[p].sub_tasks[i] = c

----------------------------------------------------------------------------
(* The claims about Agent.transition_to and Task *)

\* C12: transition_to called with a value that is no member of AgentState
\* raises ValueError and leaves the state of every agent as it was; a call
\* with a member moves the agent there; and every agent's state is at all
\* times a member of AgentState.
C12_InvalidTransitionRejected ==
    /\ [](\A a \in DOMAIN agents : agents[a] \in AgentState)
    /\ [][op'.kind = "transition_to" =>
            IF op'.value \in AgentState
            THEN /\ rejected' = None
                 /\ agents' = [agents EXCEPT ![tasks[op'.task].agent] = op'.value]
            ELSE /\ rejected' = Some("ValueError")
                 /\ agents' = agents]_vars

\* the plain string "IDLE" was given to an agent in PROBING and refused
C12_Witness ==
    /\ op.kind = "transition_to"
    /\ op.value = "IDLE"
    /\ rejected = Some("ValueError")
    /\ agents[op.task] = "probing"

\* C13: a run() of a task with max_steps = N invokes step() at most N times,
\* whatever the agents' handlers do, also when the agent never becomes
\* terminal; every run() begun has returned, and every step() invoked has
\* ended before the next one is invoked or the run returns.
C13_RunStepsAtMostMaxSteps ==
    \A i \in DOMAIN events :
        IsRun(i) =>
            /\ \E j \in (i + 1)..Len(events) :
                  events[j].ev = "run returned" /\ events[j].task = events[i].task
            /\ Cardinality(StepsIn(i)) <= tasks[events[i].task].max_steps
            /\ \A k \in StepsIn(i) :
                  \E e \in (k + 1)..EndOf(i) :
                      /\ events[e].task = events[i].task
                      /\ events[e].ev \in {"step returned", "step failed", "step skipped"}
                      /\ \A k2 \in StepsIn(i) : k2 <= k \/ k2 > e

\* a run() used its whole ceiling of two steps and left its agent in
\* PROCESSING
C13_Witness ==
    /\ op.kind = "run"
    /\ tasks[Root].max_steps = 2
    /\ Cardinality(StepsIn(1)) = 2
    /\ tasks[Root].step_count = 2
    /\ agents[Root] = "processing"

\* C14: inside a run(), step() is never invoked while the task's agent is in
\* DONE or ERROR: a run() begun with the agent terminal invokes no step(),
\* and after a step() that leaves the agent terminal the run() invokes no
\* other.
C14_NoStepWhileTerminal ==
    /\ \A k \in DOMAIN events :
          (events[k].ev = "step" /\ InRun(k)) => events[k].st \notin Terminal
    /\ \A i \in DOMAIN events :
          IsRun(i) =>
              /\ events[i].st \in Terminal => StepsIn(i) = {}
              /\ \A e \in (i + 1)..EndOf(i) :
                    (/\ events[e].task = events[i].task
                     /\ events[e].ev \in {"step returned", "step failed"}
                     /\ events[e].st \in Terminal) =>
                        \A k \in StepsIn(i) : k < e

\* a run() of a task with two steps to go stopped after the one in which
\* the handler left its agent terminal; and a sub-task's run() found its
\* agent in DONE and made no step
C14_Witness ==
    /\ op.kind = "run"
    /\ \E i \in DOMAIN events :
          /\ IsRun(i)
          /\ ~tasks[events[i].task].single_round
          /\ tasks[events[i].task].max_steps = 2
          /\ events[i].n = 0
          /\ events[i].st \notin Terminal
          /\ Cardinality(StepsIn(i)) = 1
          /\ events[EndOf(i)].n = 1
          /\ events[EndOf(i)].st \in Terminal
    /\ \E i \in DOMAIN events :
          /\ IsRun(i)
          /\ events[i].task # Root
          /\ events[i].st = "done"
          /\ StepsIn(i) = {}

\* C15 as stated: a single-round task's agent is in DONE after a step that
\* succeeded, and every run() of a single-round task whose agent is not
\* terminal when the run begins invokes step() exactly once and delivers
\* exactly one pending message to the agent's handler.
C15_SingleRoundRunsOneStep ==
    /\ \A e \in DOMAIN events :
          (events[e].ev = "step returned" /\ tasks[events[e].task].single_round)
              => events[e].st = "done"
    /\ \A i \in DOMAIN events :
          (/\ IsRun(i)
           /\ tasks[events[i].task].single_round
           /\ events[i].st \notin Terminal) =>
              /\ Cardinality(StepsIn(i)) = 1
              /\ Cardinality(DeliveriesIn(i)) = 1

\* C15 amended: a single-round task's agent is in DONE after a step that
\* succeeded, whatever state the handler left it in; and every run() of a
\* single-round task whose agent is not terminal, whose step_count is below
\* max_steps and whose initial message is not None when the run begins
\* invokes step() exactly once and delivers exactly one pending message to
\* the agent's handler, every other handler call of the run being the fold
\* of a sub-task's response.
C15_SingleRoundRunsOneStepWithinCeiling ==
    /\ \A e \in DOMAIN events :
          (events[e].ev = "step returned" /\ tasks[events[e].task].single_round)
              => events[e].st = "done"
    /\ \A i \in DOMAIN events :
          (/\ IsRun(i)
           /\ tasks[events[i].task].single_round
           /\ events[i].st \notin Terminal
           /\ events[i].n < tasks[events[i].task].max_steps
           /\ events[i].msg # None) =>
              /\ Cardinality(StepsIn(i)) = 1
              /\ Cardinality(DeliveriesIn(i)) = 1
              /\ \A k \in i..EndOf(i) :
                    (IsDelivery(k) /\ events[k].task = events[i].task) =>
                        \/ k \in DeliveriesIn(i)
                        \/ /\ events[k - 1].ev = "run returned"
                           /\ events[k].msg = events[k - 1].ret

\* a single-round task with sub-tasks and two steps to go was run: its
\* handler left the agent in PROCESSING, both sub-tasks were folded, the
\* agent ended in DONE and one step was made
C15_Witness ==
    /\ op.kind = "run"
    /\ tasks[Root].single_round
    /\ tasks[Root].max_steps = 2
    /\ tasks[Root].sub_tasks = <<"T2", "T3">>
    /\ events[1].st \notin Terminal
    /\ events[1].n = 0
    /\ events[3].ev = "handled"
    /\ events[3].st = "processing"
    /\ Cardinality(StepsIn(1)) = 1
    /\ Cardinality({k \in DOMAIN events :
                       IsDelivery(k) /\ events[k].task = Root}) = 3
    /\ agents[Root] = "done"
    /\ tasks[Root].step_count = 1

\* C16: when the handler of a task's agent raises inside step(), on the
\* pending message or on a sub-task's response, the step ends at once with
\* the agent in ERROR and no result; inside a run() that step is not
\* counted, no other step follows and the run returns; a step() called by
\* the client returns None.
C16_StepExceptionForcesError ==
    \A k \in DOMAIN events :
        events[k].ev = "raised" =>
            /\ k < Len(events)
            /\ events[k + 1].ev = "step failed"
            /\ events[k + 1].task = events[k].task
            /\ events[k + 1].st = "error"
            /\ events[k + 1].ret = None
            /\ events[k + 1].n = events[k].n
            /\ IF InRun(k)
               THEN /\ events[k + 2].ev = "run returned"
                    /\ events[k + 2].task = events[k].task
                    /\ events[k + 2].n = events[k].n
                    /\ events[k + 2].st = "error"
               ELSE /\ k + 1 = Len(events)
                    /\ result = None
                    /\ agents[tasks[events[k].task].agent] = "error"

\* the handler answered the pending message and raised on the first
\* sub-task's response: the run ended there with no step counted, the agent
\* in ERROR and the second sub-task not run
C16_Witness ==
    /\ op.kind = "run"
    /\ tasks[Root].sub_tasks = <<"T2", "T3">>
    /\ tasks[Root].max_steps = 2
    /\ events[3].ev = "handled"
    /\ \E k \in DOMAIN events :
          /\ events[k].ev = "raised"
          /\ events[k].task = Root
          /\ events[k - 1].ev = "run returned"
          /\ events[k - 1].task = "T2"
          /\ k + 2 = Len(events)
    /\ \A k \in DOMAIN events : events[k].task # "T3"
    /\ tasks[Root].step_count = 0
    /\ agents[Root] = "error"

\* C17: in a step(), sub-tasks are run only after the handler has answered
\* the pending message and left the agent out of ERROR; they are run in list
\* order; each is given the parent's response at that moment (the answer to
\* the pending message for the first, the answer to the previous sub-task's
\* response for the others) as its initial message; and the value each run
\* returns is given to the parent's handler once, right after the run and
\* before any other sub-task is run.
C17_SubTasksRunInOrderAndFolded ==
    /\ \A k \in DOMAIN events :
          (IsRun(k) /\ (k > 1 \/ op.kind # "run")) =>
              LET c == events[k].task
                  p == ParentOf(c)
              IN  /\ IsSubTask(c)
                  /\ events[k - 1].ev = "handled"
                  /\ events[k - 1].task = p
                  /\ events[k - 1].ret = events[k].msg
                  /\ events[k - 2].ev = "step" =>
                        /\ events[k - 1].st # "error"
                        /\ c = tasks[p].sub_tasks[1]
                  /\ events[k - 2].ev # "step" =>
                        /\ events[k - 2].ev = "run returned"
                        /\ \E j \in 2..Len(tasks[p].sub_tasks) :
                              /\ tasks[p].sub_tasks[j] = c
                              /\ tasks[p].sub_tasks[j - 1] = events[k - 2].task
                  /\ LET e == EndOf(k)
                     IN  /\ IsDelivery(e + 1)
                         /\ events[e + 1].task = p
                         /\ events[e + 1].msg = events[e].ret
                         /\ ~(IsDelivery(e + 2) /\ events[e + 2].task = p)
    /\ \A k \in DOMAIN events :
          (/\ events[k].ev = "handled"
           /\ events[k - 1].ev = "step"
           /\ events[k].st = "error") =>
              /\ events[k + 1].ev = "step returned"
              /\ events[k + 1].task = events[k].task
    /\ \A k \in DOMAIN events :
          (/\ events[k].ev = "handled"
           /\ events[k].st # "error"
           /\ events[k - 1].ev = "step"
           /\ tasks[events[k].task].sub_tasks # <<>>) =>
              /\ IsRun(k + 1)
              /\ events[k + 1].task = tasks[events[k].task].sub_tasks[1]

\* a step ran T2 and then T3: T2 got the answer to the pending message, its
\* response was folded, T3 got the answer to that fold
C17_Witness ==
    /\ tasks[Root].sub_tasks = <<"T2", "T3">>
    /\ \E k2, k3 \in DOMAIN events :
          /\ k2 < k3
          /\ IsRun(k2) /\ events[k2].task = "T2"
          /\ IsRun(k3) /\ events[k3].task = "T3"
          /\ events[k2 - 1].ev = "handled"
          /\ events[k2].msg = events[k2 - 1].ret
          /\ events[k3 - 1].ev = "handled"
          /\ events[k3 - 1].msg = events[EndOf(k2)].ret
          /\ events[k3].msg = events[k3 - 1].ret
          /\ events[k3].msg # events[k2].msg
          /\ Cardinality(StepsIn(k2)) >= 1

\* a task as Task.reset leaves it
Reset(task) == [task EXCEPT !.step_count = 0, !.pending_message = None]

\* C18: reset() on a task sets step_count to 0, pending_message to None and
\* the agent to IDLE, whatever they were, for the task and for every task
\* below it, and changes nothing else; a run() that follows a reset() starts
\* from step_count 0 and makes max_steps steps unless a step leaves the
\* agent terminal or returns None; a step() with no pending message invokes
\* no handler, returns None and changes no task and no agent.
C18_ResetClearsRecursively ==
    [][/\ op'.kind = "reset" =>
            /\ tasks' = [t \in Tasks |-> Reset(tasks[t])]
            /\ agents' = [a \in Tasks |-> "idle"]
            /\ rejected' = None
            /\ used' = used
       /\ (op.kind = "reset" /\ op'.kind = "run") =>
            /\ events'[1].n = 0
            /\ events'[1].st = "idle"
            /\ \/ tasks'[Root].step_count = tasks[Root].max_steps
               \/ agents'[Root] \in Terminal
               \/ events'[Len(events') - 1].ev \in {"step returned", "step skipped"}
                    /\ events'[Len(events') - 1].ret = None
       /\ (op'.kind = "step" /\ tasks[Root].pending_message = None) =>
            /\ tasks' = tasks
            /\ agents' = agents
            /\ used' = used
            /\ result' = None
            /\ events'[Len(events')].ev = "step skipped"
            /\ \A k \in DOMAIN events' : ~IsDelivery(k)']_vars

\* reset() found T3, two levels down, with a step counted, a pending
\* message and its agent terminal, and cleared it
C18_Witness ==
    /\ op.kind = "reset"
    /\ tasks["T2"].sub_tasks = <<"T3">>
    /\ \E k \in DOMAIN events :
          /\ events[k].ev = "reset"
          /\ events[k].task = "T3"
          /\ events[k].n > 0
          /\ events[k].msg # None
          /\ events[k].st \in Terminal
    /\ tasks["T3"].step_count = 0
    /\ tasks["T3"].pending_message = None
    /\ agents["T3"] = "idle"

----------------------------------------------------------------------------
(* Tool dispatch: what one _execute_tools call tried, read from events     *)

\* the tools tried, in the order of the tries
Tried == [k \in DOMAIN events |-> events[k].tool]

\* the registered tools in registration order
Registered == [i \in DOMAIN tools |-> tools[i].cls.id]

\* the places in the registry of the tools whose request name, the name
\* they are registered under, is in the text whatever the case
NamedByRequest(text) ==
    {i \in DOMAIN tools : Contains(lower(tools[i].key), lower(text))}

\* the registered tools but the i-th, in registration order
Others(i) ==
    SubSeq(Registered, 1, i - 1) \o SubSeq(Registered, i + 1, Len(Registered))

IsPrefix(s, q) == Len(s) <= Len(q) /\ s = SubSeq(q, 1, Len(s))

\* the validation rule: absent or empty, or a string with a negative marker
Invalid(v) ==
    \/ v.val = <<>>
    \/ v.type = "str" /\ \E marker \in error_patterns : Contains(marker, lower(v.val))

\* the k-th try got a result from the handler
Answered(k) == events[k].outcome.kind = "result"

\* C19: a dispatch on a text tries first the first registered tool whose
\* request name is in the text (case-insensitively) and then, or when no
\* tool is named, the registered tools in registration order (the named
\* one among them or not); it stops at
\* the first handler result that passes validation and returns it, and
\* returns None when it has tried every tool without one.
C19_NamedToolPreferred ==
    (op.kind = "_execute_tools" /\ op.message # None) =>
        LET named == NamedByRequest(op.message[1])
            first == CHOOSE i \in named : \A j \in named : i <= j
            accepted == {k \in DOMAIN events :
                            Answered(k) /\ ~Invalid(events[k].outcome.value)}
        IN  /\ named # {} =>
                   /\ events # <<>>
                   /\ Tried[1] = Registered[first]
                   /\ \/ IsPrefix(Tail(Tried), Registered)
                      \/ IsPrefix(Tail(Tried), Others(first))
            /\ named = {} => IsPrefix(Tried, Registered)
            /\ \A k \in accepted :
                   k = Len(events) /\ result = events[k].outcome.value
            /\ accepted = {} =>
                   /\ result = PyNone
                   /\ \A i \in DOMAIN tools :
                          \E k \in DOMAIN events : Tried[k] = Registered[i]

\* C20: a dispatch never returns a handler result that is None, empty or a
\* string with one of the markers in whatever case: the try that got it
\* yields nothing the dispatch takes, and the dispatch either makes a
\* further try or has tried every registered tool and returns None.
C20_InvalidResultRejected ==
    op.kind = "_execute_tools" =>
        /\ Invalid(result) => result = PyNone
        /\ \A k \in DOMAIN events :
               (Answered(k) /\ Invalid(events[k].outcome.value)) =>
                   /\ ~Bool(events[k].returned)
                   /\ \/ k < Len(events)
                      \/ /\ result = PyNone
                         /\ \A i \in DOMAIN tools :
                                \E j \in DOMAIN events : events[j].tool = Registered[i]

\* a handler answered "Error: not configured", the next registered tool was
\* tried and its answer was returned
C20_Witness ==
    /\ op.kind = "_execute_tools"
    /\ \E k \in DOMAIN events :
           /\ events[k].outcome = ToolOutcome("result", Str(ErrorNotConfigured))
           /\ k + 1 = Len(events)
           /\ events[k + 1].tool # events[k].tool
           /\ result = Str(Ok)

\* C21: a dispatch returns to its caller, whatever the tools do: a try
\* that ends in an exception is followed by the try of the next tool, or
\* was the last candidate of a dispatch that returns None; a dispatch in
\* which no handler gave a valid result returns None; and the agent is in
\* the state it was in when the dispatch was called.
C21_DispatchNeverRaises ==
    op.kind = "_execute_tools" =>
        /\ result.type # "raised"
        /\ \A k \in DOMAIN events :
               events[k].outcome.kind \in Raising =>
                   \/ k < Len(events)
                   \/ /\ result = PyNone
                      /\ \A i \in DOMAIN tools :
                             \E j \in DOMAIN events : Tried[j] = Registered[i]
        /\ (\A k \in DOMAIN events :
                ~Answered(k) \/ Invalid(events[k].outcome.value)) => result = PyNone
        /\ agents = op.state
        /\ agents # "error"

\* the handler of the first tool raised, the second tool was tried and its
\* answer returned, with the agent in PROCESSING throughout
C21_Witness ==
    /\ op.kind = "_execute_tools"
    /\ op.state = "processing"
    /\ Len(events) = 2
    /\ events[1].outcome.kind = "handler raises"
    /\ events[2].tool # events[1].tool
    /\ result = Str(Ok)

----------------------------------------------------------------------------
(* Tool dispatch: how often one _execute_tools call invokes a handler      *)

\* the tries of the last dispatch in which the handler of the tool was
\* invoked: it returned a value or raised
Invocations(id) ==
    {k \in DOMAIN events :
        Tried[k] = id /\ events[k].outcome.kind \in {"result", "handler raises"}}

\* the place in the registry of the tool the last dispatch took for the
\* named one, 0 when it took none
Specific ==
    IF op.message = None THEN 0 ELSE _get_specific_tool(tools, op.message[1])

\* the places in the registry of the tools whose result the last dispatch
\* accepted
AcceptedPlaces ==
    {i \in DOMAIN tools :
        \E k \in DOMAIN events :
            /\ Tried[k] = Registered[i]
            /\ Answered(k)
            /\ ~Invalid(events[k].outcome.value)}

\* C40: within one dispatch a tool's handler is invoked at most twice, and
\* twice only for the named tool whose first result failed validation;
\* every other registered tool is invoked at most once, and a tool
\* registered after the accepted one is never invoked.
C40_HandlerInvokedAtMostTwice ==
    op.kind = "_execute_tools" =>
        /\ \A i \in DOMAIN tools :
               /\ Cardinality(Invocations(Registered[i])) <= 2
               /\ Cardinality(Invocations(Registered[i])) = 2 =>
                      /\ i = Specific
                      /\ Tried[1] = Registered[i]
                      /\ Answered(1)
                      /\ Invalid(events[1].outcome.value)
        /\ \A a \in AcceptedPlaces :
               \A i \in DOMAIN tools :
                   i > a => Invocations(Registered[i]) = {}

\* C40 as the code has it: within one dispatch a tool's handler is invoked
\* at most twice, and twice only for the tool the dispatch took for the
\* named one, whose first try gave a result that failed validation or ended
\* in an exception of the handler; every other registered tool is invoked
\* at most once; and a tool registered after the accepted one is invoked
\* only if it is the named one, and then only in the first try.
C40_HandlerInvokedAtMostTwiceNamedFirst ==
    op.kind = "_execute_tools" =>
        /\ \A i \in DOMAIN tools :
               /\ Cardinality(Invocations(Registered[i])) <= 2
               /\ Cardinality(Invocations(Registered[i])) = 2 =>
                      /\ i = Specific
                      /\ Tried[1] = Registered[i]
                      /\ \/ Answered(1) /\ Invalid(events[1].outcome.value)
                         \/ events[1].outcome.kind = "handler raises"
        /\ \A a \in AcceptedPlaces :
               \A i \in DOMAIN tools :
                   i > a =>
                       /\ Invocations(Registered[i]) \subseteq {1}
                       /\ Invocations(Registered[i]) # {} => i = Specific

\* the named tool, registered second, raised in the first try, the tool
\* registered first gave a result that failed validation, and the named
\* tool's handler was invoked again
C40_Witness ==
    /\ op.kind = "_execute_tools"
    /\ Len(tools) = 2
    /\ Specific = 2
    /\ Len(events) = 3
    /\ events[1].outcome.kind = "handler raises"
    /\ Answered(2)
    /\ Cardinality(Invocations(Registered[2])) = 2

\* the named tool, registered second, gave a result that failed validation
\* and the result of the tool registered first was accepted
C40_WitnessNamedLater ==
    /\ op.kind = "_execute_tools"
    /\ Len(tools) = 2
    /\ Specific = 2
    /\ Len(events) = 2
    /\ Answered(1)
    /\ AcceptedPlaces = {1}
    /\ Invocations(Registered[2]) = {1}

----------------------------------------------------------------------------
(* Tool registration: the registries of two agents                         *)

ToolClassOf(id) == CHOOSE cls \in ToolClasses : cls.id = id

\* the request value the class declares, or its lower-cased class name when
\* it declares none
RequestName(cls) == IF cls.declared # None THEN cls.declared[1] ELSE lower(cls.name)

----------------------------------------------------------------------------
(* The parallel retrieve: what the last handle_message_parallel call built *)

\* the last call has returned and had built structured_results
Reconciled == op.pc = "returned" /\ result # None /\ result[1].payload # None

Payload == result[1].payload[1]

\* the ways in which the execution of a retrieval tool raises
Failing == {"params raise", "handler raises", "request fails"}

\* C23: when the execution of the tool of one source raises, the record of
\* that source has the status "error", not "empty", and the record of the
\* other source is the one its own result gives.
C23_RaisingToolGivesErrorRecord ==
    Reconciled =>
        \A source \in SourceSet :
            script[source].kind \in Failing =>
                /\ Item(Payload, source).status = "error"
                /\ \A other \in SourceSet \ {source} :
                       Item(Payload, other) = _process_result(tasks[other].result, other)

\* C24: while the call awaits its tasks it has built no payload and asked
\* the model nothing; when it has, the task of each source was begun and
\* was done before the await ended, whatever the order and the results.
C24_ReconcileAfterBothDone ==
    /\ op.pc = "gathering" => result = None
    /\ Reconciled =>
           /\ events[Len(events)] = <<"gathered", "">>
           /\ \A source \in SourceSet :
                  /\ tasks[source].pc = "done"
                  /\ \E k \in 1..(Len(events) - 1) : events[k] = <<"done", source>>

\* the API search was done first, with a result, and the vector search was
\* still run to its end before the payload was built
C24_Witness ==
    /\ Reconciled
    /\ result[1].completed = <<"api_search", "vector_search">>
    /\ Item(Payload, "api_search").status = "success"
    /\ events[1] = <<"running", "api_search">>
    /\ events[2] = <<"done", "api_search">>
    /\ script["vector_search"].kind = "result"

\* C25: the payload lists vector_search, then api_search, each with the
\* record its own task's result gives, and the prompt shows them under
\* their own headings; the payload is the one the call before built from
\* the same results.
C25_PayloadOrderStable ==
    Reconciled =>
        /\ [i \in DOMAIN Payload |-> Payload[i].key] = Sources
        /\ \A i \in DOMAIN Payload :
               /\ Payload[i].value.source = Sources[i]
               /\ Payload[i].value = _process_result(tasks[Sources[i]].result, Sources[i])
        /\ result[1].prompt[1].vector = _format_results(Payload[1].value)
        /\ result[1].prompt[1].api = _format_results(Payload[2].value)
        /\ (rejected # None /\ rejected[1].payload # None) =>
               rejected[1].payload = result[1].payload

\* two calls in which the tasks were done in opposite orders, with
\* different records for the two sources
C25_Witness ==
    /\ Reconciled
    /\ rejected # None
    /\ rejected[1].payload # None
    /\ rejected[1].completed = <<"vector_search", "api_search">>
    /\ result[1].completed = <<"api_search", "vector_search">>
    /\ Payload[1].value.status = "empty"
    /\ Payload[2].value.status = "success"

----------------------------------------------------------------------------
(* The non-parallel retrieve: the attempts of the last llm_response call   *)

\* the k-th attempt ended without an answer and without an exception
NoAnswer(k) == events[k].outcome # "generate raises" /\ events[k].returned.val = <<>>

----------------------------------------------------------------------------
(* A ProbingAgent on its own: the last handle_message call                 *)

\* the response is a question
IsQuestion(resp) == resp.type = "str" /\ Truthy(resp.val)

\* the last call recorded its message as the answer to the question q
Recorded ==
    /\ Len(agents.collected_responses) = Len(op.before.collected_responses) + 1
    /\ agents.collected_responses[Len(agents.collected_responses)].answer = op.message

\* what the agent returned last is a question, which waits for its answer
Outstanding == IsQuestion(rejected)

\* C27: a handle_message call records its message as an answer exactly
\* when what the agent returned last is a question, which is then the
\* question of the record; the first call records nothing and, unless the
\* language model fails, returns a question.
C27_RecordsIffOutstanding ==
    op.kind = "handle_message" =>
        /\ Recorded <=> Outstanding
        /\ Recorded => agents.collected_responses[Len(agents.collected_responses)].question = rejected.val[1]
        /\ ~Recorded => agents.collected_responses = op.before.collected_responses
        /\ ops = 1 => ~Recorded /\ result.type \in {"str", "raised"}

\* C28: a call that leaves fewer than MaxQuestions pairs recorded returns a
\* question unless the language model fails; the call that records the
\* MaxQuestions-th answer returns a dict; and after a call that returned a
\* dict the question counter is zero.
C28_SummaryAfterMaxThenReset ==
    op.kind = "handle_message" =>
        /\ Len(agents.collected_responses) < MaxQuestions =>
               result.type \in {"str", "raised"}
        /\ (Recorded /\ Len(agents.collected_responses) = MaxQuestions) =>
               result.type = "dict"
        /\ result.type = "dict" => agents.question_counter = 0

\* C29: the question counter of a ProbingAgent never exceeds max_questions.
C29_CounterBounded == agents.question_counter <= MaxQuestions

\* the k-th record carries the ids question_k and answer_k
Numbered ==
    \A k \in 1..Len(agents.collected_responses) :
        /\ agents.collected_responses[k].question_id = <<"question", k>>
        /\ agents.collected_responses[k].answer_id = <<"answer", k>>

\* the records the last call found are still there, in their places
ArrivalOrder ==
    /\ Len(agents.collected_responses) >= Len(op.before.collected_responses)
    /\ SubSeq(agents.collected_responses, 1, Len(op.before.collected_responses)) = op.before.collected_responses

\* the counting part of C38: as many records as question_counter says, in
\* the order the answers arrived, the k-th numbered k
C38_CountedNumberedInOrder ==
    /\ Len(agents.collected_responses) = agents.question_counter
    /\ Numbered
    /\ op.kind = "handle_message" => ArrivalOrder

\* C38: the number of stored records equals question_counter, the records
\* are in the order the answers arrived, the k-th record carries the ids
\* question_k and answer_k, and a record pairs its answer with the question
\* that was outstanding when the answer arrived.
C38_RecordsCountedAndPaired ==
    /\ C38_CountedNumberedInOrder
    /\ (op.kind = "handle_message" /\ Recorded) =>
           /\ Outstanding
           /\ agents.collected_responses[Len(agents.collected_responses)].question = rejected.val[1]

----------------------------------------------------------------------------
(* Task.step_count over several run() calls                                *)

\* the steps of task t that returned a response inside a run() of t
RespondedSteps(t) ==
    {k \in DOMAIN events :
        /\ events[k].task = t
        /\ events[k].ev = "step returned"
        /\ events[k].ret # None
        /\ InRun(k)}

\* the handler calls of task t's agent between the events i and j
HandlerCalls(t, i, j) ==
    {k \in i..j : IsDelivery(k) /\ events[k].task = t}

\* C39: step_count is cumulative across run() calls: without a reset() in
\* between, every step of a run() that returned a response adds one to the
\* task's step_count and nothing else changes it, so the steps that
\* returned a response are at most max_steps in all; and a run() begun with
\* step_count at max_steps calls the agent's handler zero times and returns
\* "Task completed without response".
C39_StepCountCumulative ==
    /\ [](\A t \in Tasks : tasks[t].step_count <= tasks[t].max_steps)
    /\ [](\A i \in DOMAIN events :
             (IsRun(i) /\ events[i].n >= tasks[events[i].task].max_steps) =>
                 /\ HandlerCalls(events[i].task, i, EndOf(i)) = {}
                 /\ events[EndOf(i)].ev = "run returned"
                 /\ events[EndOf(i)].ret = NoResponse(events[i].task))
    /\ [][op'.kind # "reset" =>
            \A t \in Tasks :
                tasks'[t].step_count = tasks[t].step_count + Cardinality(RespondedSteps(t))']_vars

\* a run() found step_count at the ceiling of two steps, which earlier
\* run() calls had used up, called no handler and returned the default text
C39_Witness ==
    /\ op.kind = "run"
    /\ tasks[Root].max_steps = 2
    /\ Len(events) = 2
    /\ events[1].ev = "run"
    /\ events[1].n = 2
    /\ agents[Root] \notin Terminal
    /\ result = NoResponse(Root)

\* a run() that began with one step counted made the second and last one
C39_WitnessAccumulated ==
    /\ op.kind = "run"
    /\ tasks[Root].max_steps = 2
    /\ events[1].ev = "run"
    /\ events[1].n = 1
    /\ Cardinality(RespondedSteps(Root)) = 1
    /\ tasks[Root].step_count = 2

----------------------------------------------------------------------------
(* The probing turns with a failing notification sink                      *)

\* C30: a probing turn that gets the summary while the store or the Slack
\* channel fails still passes through DONE, ends in IDLE (not in PROBING,
\* not in ERROR) and returns the thank-you text.
C30_DeliveryFailureContained ==
    (/\ op.kind = "handle_message"
     /\ Did(invoked, "probing_agent", "summary")
     /\ op.sink \in {"mongo_fails", "slack_fails"}) =>
        /\ \E i \in DOMAIN transitions : transitions[i] = "done"
        /\ state = "idle"
        /\ response = Text("Thank you for your feedback", None)

----------------------------------------------------------------------------
(* The contexts of two agents                                              *)

\* the capabilities of the agent a
CapabilitiesOf(a) == tools[agents[a].capabilities]

\* no element of the list occurs twice
NoDuplicate(list) ==
    \A i \in DOMAIN list, j \in DOMAIN list : list[i] = list[j] => i = j

\* C31: an operation on one agent (add_capability, the history append of
\* llm_response) leaves the context of every other agent as it was, also
\* when both agents were constructed from one configuration.
C31_ContextNotShared ==
    op.kind \in {"add_capability", "llm_response"} =>
        \A b \in AgentIds \ {op.agent} :
            ContextOf(tools, b) = ContextOf(op.before, b)

\* C32: after add_capability(c) the capabilities of the agent have no
\* duplicate, hold every capability declared at construction and c, and
\* one more add_capability(c) would leave them as they are.
C32_AddCapabilityIdempotent ==
    op.kind = "add_capability" =>
        LET capabilities == CapabilitiesOf(op.agent)
        IN  /\ NoDuplicate(capabilities)
            /\ \A i \in DOMAIN script[op.agent] :
                   \E j \in DOMAIN capabilities :
                       capabilities[j] = script[op.agent][i]
            /\ \E j \in DOMAIN capabilities : capabilities[j] = op.capability
            /\ add_capability(capabilities, op.capability) = capabilities

----------------------------------------------------------------------------
(* The parallel retrieve: the answer taken from the model's output         *)

\* the words of the text s after the first ANSWER: heading
AfterAnswer(s) ==
    LET k == CHOOSE i \in DOMAIN s : s[i] = ANSWER /\ \A j \in 1..(i - 1) : s[j] # ANSWER
    IN  SubSeq(s, k + 1, Len(s))

HasAnswer(s) == \E i \in DOMAIN s : s[i] = ANSWER

\* C33: when the model's output has the ANSWER: heading, the call returns
\* the text after the heading, trimmed, and no EVALUATION or SELECTED
\* SOURCE(S) heading or section is in what it returns; when the output has
\* no ANSWER: heading, the call returns the output as it is.
C33_OnlyAnswerSectionReturned ==
    (op.kind = "handle_message_parallel" /\ script.kind = "dict" /\ script.message # None) =>
        LET output == script.message[1]
        IN  IF HasAnswer(output)
            THEN /\ \E i \in 0..Len(AfterAnswer(output)) :
                        strip(SubSeq(AfterAnswer(output), 1, i)) = result.val
                 /\ \A i \in DOMAIN result.val :
                        result.val[i] \notin {"EVALUATION:", "SELECTED SOURCE(S):"}
            ELSE result.val = output

----------------------------------------------------------------------------
(* The orchestrator between two calls                                      *)

\* C34: at the end of every handle_message call the orchestrator is in
\* IDLE, WAITING_FEEDBACK, PROBING or ERROR (the other states are passed
\* within a call only), and no call is answered by the branch for a state
\* without a handler, "System error. Please try again.".
C34_OnlyRestingStatesBetweenCalls ==
    /\ state \in {"idle", "waiting_feedback", "probing", "error"}
    /\ response.kind # "System error. Please try again."
    /\ start_state \in {"idle", "waiting_feedback", "probing", "error"}

\* a call passed through RETRIEVING, where the retrieval raised, and ended
\* in ERROR
C34_Witness ==
    /\ start_state = "idle"
    /\ transitions = <<"retrieving", "error">>
    /\ exc # None
    /\ state = "error"

\* C35: a call that ends in WAITING_FEEDBACK or PROBING leaves
\* current_query and current_answer set, and current_query is the message
\* of the call when the call started in IDLE and otherwise what it was
\* before the call, that is, the query of the last call that started in
\* IDLE.
C35_QueryAndAnswerSetWhileInDialogue ==
    [][state' \in {"waiting_feedback", "probing"} =>
          /\ current_query' # None
          /\ current_answer' # None
          /\ current_query' = IF state = "idle" THEN msg' ELSE current_query
          /\ state # "idle" => state \in {"waiting_feedback", "probing"}]_vars

\* a probing turn that stays in PROBING with the query "nope" of the
\* dialogue still held
C35_Witness ==
    /\ start_state = "probing"
    /\ state = "probing"
    /\ current_query = Some(<<"n", "o", "p", "e">>)
    /\ current_answer # None
    /\ msg # current_query

----------------------------------------------------------------------------
(* The orchestrator that drives its agents through Tasks                   *)

\* the last call was negative feedback, which opens a probing session
OpensProbing ==
    /\ op.kind = "handle_message"
    /\ op.start = "waiting_feedback"
    /\ strip(lower(op.message)) \in FEEDBACK_UNSATISFIED

\* C36: the probing agent that negative feedback hands its first message
\* to has no recorded question/answer pair, a question counter of zero
\* and no outstanding question.
C36_ProbingSessionStartsEmpty ==
    OpensProbing =>
        /\ op.before.collected_responses = <<>>
        /\ op.before.question_counter = 0
        /\ op.before.current_question = None

\* C37: a call that opens probing or is made in PROBING hands one message
\* to ProbingAgent.handle_message, and every answer the probing agent has
\* recorded is a message of the user.
C37_OneProbingStepPerMessage ==
    (OpensProbing \/ (op.kind = "handle_message" /\ op.start = "probing")) =>
        /\ Len(events) = 1
        /\ \A k \in DOMAIN agents.probing_agent.collected_responses :
               agents.probing_agent.collected_responses[k].answer.from = "user"

====
